---- MODULE Spec2Model ----
(***************************************************************************)
(* SOCKS4 / SOCKS4a proxy (wzshiming/socks4): the per-connection handler   *)
(* of the server (server.go) and the dial / BIND-accept sequence of the    *)
(* client (client.go).                                                     *)
(*                                                                         *)
(* Spec       : one server connection, fed byte by byte by an arbitrary    *)
(*              client, with every outcome of dial / listen / accept and   *)
(*              of the writes to the client stream.                        *)
(* ClientSpec : one Dialer issuing Dial and listener.Accept calls against  *)
(*              an arbitrary proxy.                                        *)
(*                                                                         *)
(* The wire codec (readByte, readAddrAndUser, readAddr, writeAddr,         *)
(* writeAddrAndUserWithStr), the protocol constants, tunnel and            *)
(* isClosedConnError are used by server.go and client.go but their file is *)
(* not part of the sources at hand; they are modelled from sections 3, 4.1 *)
(* and 4.7 of the specification.                                           *)
(***************************************************************************)
EXTENDS Integers, Sequences, FiniteSets, TLC

\* ------------------------------------------------------------------ bounds
\* Stands for the 256-byte limit of a username / domain field (section 4.1),
\* scaled down so that the over-long case is reached.
MaxFieldLen == 2
\* Bytes relayed in each direction before the model stops following a relay.
MaxRelay == 2
\* Dial / Accept calls issued by the client.
MaxCalls == 2

\* --------------------------------------------------------- wire constants
socks4Version == 4
ConnectCommand == 1
BindCommand == 2
grantedReply == 90
rejectedReply == 91
noIdentdReply == 92
invalidUserReply == 93

\* A relayed payload byte (opaque): not a value a reply byte can take.
Data == 256
\* End of stream / failed read, as an input of a read step.
EOF == 257

\* ------------------------------------------------------------- input sets
VersionBytes == {4, 5}
CommandBytes == {1, 2, 3}
PortInputs == {<<0, 80>>, <<39, 16>>}
IPInputs == {<<127, 0, 0, 1>>, <<10, 0, 0, 1>>, <<0, 0, 0, 1>>, <<0, 0, 0, 0>>}
UserBytes == {117, 118}
DomainBytes == {97}
IPv6Loopback == <<0, 0, 0, 0, 0, 0, 0, 0, 0, 0, 0, 0, 0, 0, 0, 1>>
\* outcome of the writes of one sendReply on the client stream
WriteOutcomes == {"ok", "failHeader", "failAddr"}

VARIABLES
    Authentication, Logger,          \* Server fields
    pc,                              \* position of the handler
    rx,                              \* bytes read from the client stream
    field,                           \* field readAddrAndUser is reading
    req,                             \* the request record
    replies,                         \* sendReply calls made on the client stream
    tx,                              \* bytes delivered to the client stream
    target,                          \* outbound connection of CONNECT
    listener,                        \* listening socket of BIND
    peer,                            \* connection accepted by BIND
    relayUp,                         \* bytes relayed client -> target
    authCalls,                       \* calls of Authentication.Auth
    err,                             \* error returned by serveConn
    exitAt,                          \* position the handler returned from
    connClosed,                      \* client stream closed
    logged,                          \* Logger.Println called
    \* ------------------------------------------------------------ client
    d,                               \* Dialer fields
    l,                               \* the BIND listener made by Dialer.Listen
    cpc,                             \* position of the client call
    call,                            \* the call in progress
    transports,                      \* transports opened to the proxy
    results,                         \* what the finished calls returned
    resolved                         \* resolver invocations

VARIABLES
    Context                          \* Server.Context: "active", "cancelled"

VARIABLES
    simple,                          \* the SimpleServer
    proxyURL                         \* what SimpleServer.ProxyURL returned

VARIABLES
    endpoint,                        \* endpoint the first BIND session bound
    attempts                         \* third-party connections to endpoint

VARIABLES
    serve,                           \* Server.Serve: its loop and its listener
    parked                           \* the handlers Serve started, by connection

svars == <<Authentication, Logger, pc, rx, field, req, replies, tx, target,
           listener, peer, relayUp, authCalls, err, exitAt, connClosed, logged>>
cvars == <<d, l, cpc, call, transports, results, resolved>>
\* what a step of the server handler, of the client, leaves alone
uvars == <<simple, proxyURL>>
bvars == <<endpoint, attempts>>
lvars == <<serve, parked>>
srest == <<cvars, Context, uvars, bvars, lvars>>
crest == <<svars, Context, uvars, bvars, lvars>>
vars == <<svars, cvars, Context, uvars, bvars, lvars>>

\* ---------------------------------------------------------------- address
NilAddr == [nil |-> TRUE, name |-> <<>>, ip |-> <<>>, port |-> 0]

Addr(name, ip, port) == [nil |-> FALSE, name |-> name, ip |-> ip, port |-> port]

\* net.IP.To4: the 4-byte form, or the empty sequence (nil) when there is none
To4(ip) == IF Len(ip) = 4 THEN ip ELSE <<>>

\* binary.BigEndian on a 16-bit port
PortBytes(port) == <<(port \div 256) % 256, port % 256>>

PortOf(b) == b[1] * 256 + b[2]

\* the SOCKS4a marker 0.0.0.X, X # 0
IsSocks4a(ip) == ip[1] = 0 /\ ip[2] = 0 /\ ip[3] = 0 /\ ip[4] # 0

\* net.Addr values handed out by the network.  The handler dials and listens
\* on network "tcp", for which they are TCP endpoints, IPv4 or IPv6.
TCPAddr(ip, port) == [net |-> "tcp", ip |-> ip, port |-> port]

NoAddr == [net |-> "none", ip |-> <<>>, port |-> 0]

LocalAddrs == {TCPAddr(<<127, 0, 0, 1>>, 49152), TCPAddr(IPv6Loopback, 49153)}
ListenAddrs == {TCPAddr(<<0, 0, 0, 0>>, 10000), TCPAddr(IPv6Loopback, 10000)}
PeerAddrs == {TCPAddr(<<127, 0, 0, 1>>, 50000), TCPAddr(IPv6Loopback, 50001)}

\* x.(*net.TCPAddr)
IsTCPAddr(a) == a.net = "tcp"

\* mutant: the port of the endpoint is dropped
BindOf_NoPort(a) == Addr(<<>>, a.ip, 0)

\* address{IP: local.IP, Port: local.Port}
BindOf(a) == Addr(<<>>, a.ip, a.port)

\* ---------------------------------------------------------- authentication
NoAuth == [nil |-> TRUE, username |-> <<>>]

UserAuth(username) == [nil |-> FALSE, username |-> username]

\* mutant: the predicate looks at the command and accepts CONNECT only
Auth_ConnectOnly(a, cmd, u) == cmd = ConnectCommand /\ a.username = u

\* mutant: the predicate accepts every username
Auth_AcceptAll(a, cmd, u) == TRUE

Auth(a, cmd, u) == a.username = u

\* --------------------------------------------------------------- sendReply
\* writeAddr: port and IPv4 of the address, zeroes for no address; an address
\* with no IPv4 form cannot be put in a reply and fails.
writeAddrOK(addr) == addr.nil \/ To4(addr.ip) # <<>>

writeAddrBytes(addr) ==
    IF addr.nil THEN <<0, 0, 0, 0, 0, 0>>
    ELSE PortBytes(addr.port) \o To4(addr.ip)

\* the bytes one sendReply puts on the stream, w the outcome of its writes
sendReplyBytes(resp, addr, w) ==
    IF w = "failHeader" THEN <<>>
    ELSE IF w = "failAddr" \/ ~writeAddrOK(addr) THEN <<0, resp>>
    ELSE <<0, resp>> \o writeAddrBytes(addr)

sendReplyFails(resp, addr, w) == w # "ok" \/ ~writeAddrOK(addr)

sendReply(resp, addr, w) ==
    /\ replies' = Append(replies, [code |-> resp, addr |-> addr])
    /\ tx' = tx \o sendReplyBytes(resp, addr, w)

\* --------------------------------------------------------------- ServeConn
isClosedConnError(e) == e \in {"use of closed network connection"}

\* mutant: the close is not deferred, it is skipped when serveConn fails
ServeConnReturn_NoDefer(e) ==
    /\ pc' = "Closed"
    /\ exitAt' = pc
    /\ err' = e
    /\ connClosed' = (e = "nil")
    /\ logged' = (e # "nil" /\ Logger /\ ~isClosedConnError(e))

\* serveConn returns e from position pc: ServeConn logs and, deferred, closes
ServeConnReturn(e) ==
    /\ pc' = "Closed"
    /\ exitAt' = pc
    /\ err' = e
    /\ connClosed' = TRUE
    /\ logged' = (e # "nil" /\ Logger /\ ~isClosedConnError(e))

Running == <<pc, exitAt, err, connClosed, logged>>

\* a connection just handed to ServeConn
InitConn ==
    /\ pc = "AwaitingVersion"
    /\ rx = <<>>
    /\ field = "none"
    /\ req = [Version |-> 0, Command |-> 0, decoded |-> FALSE,
              DestinationAddr |-> NilAddr, Username |-> <<>>]
    /\ replies = <<>>
    /\ tx = <<>>
    /\ target = [state |-> "none", local |-> NoAddr, address |-> NilAddr]
    /\ listener = [state |-> "none", addr |-> NoAddr, accepted |-> 0]
    /\ peer = [state |-> "none", remote |-> NoAddr]
    /\ relayUp = 0
    /\ authCalls = 0
    /\ err = "nil"
    /\ exitAt = "none"
    /\ connClosed = FALSE
    /\ logged = FALSE

InitServer ==
    /\ Authentication \in {NoAuth, UserAuth(<<117>>)}
    /\ Logger \in BOOLEAN
    /\ Context = "active"
    /\ InitConn


\* ------------------------------------------------- serveConn: framing reads
\* mutant: the version byte is not checked
ReadVersion_NoCheck ==
    /\ pc = "AwaitingVersion"
    /\ \E b \in VersionBytes \cup {EOF} :
         IF b = EOF
         THEN /\ ServeConnReturn("EOF")
              /\ UNCHANGED <<rx, req>>
         ELSE /\ rx' = Append(rx, b)
              /\ IF FALSE
                 THEN /\ ServeConnReturn("unsupported SOCKS version")
                      /\ UNCHANGED req
                 ELSE /\ pc' = "AwaitingCommand"
                      /\ req' = [req EXCEPT !.Version = socks4Version]
                      /\ UNCHANGED <<exitAt, err, connClosed, logged>>
    /\ UNCHANGED <<Authentication, Logger, field, replies, tx, target,
                   listener, peer, relayUp, authCalls>>

\* readByte(conn) for the version byte, and the version check
ReadVersion ==
    /\ pc = "AwaitingVersion"
    /\ \E b \in VersionBytes \cup {EOF} :
         IF b = EOF
         THEN /\ ServeConnReturn("EOF")
              /\ UNCHANGED <<rx, req>>
         ELSE /\ rx' = Append(rx, b)
              /\ IF b # socks4Version
                 THEN /\ ServeConnReturn("unsupported SOCKS version")
                      /\ UNCHANGED req
                 ELSE /\ pc' = "AwaitingCommand"
                      /\ req' = [req EXCEPT !.Version = socks4Version]
                      /\ UNCHANGED <<exitAt, err, connClosed, logged>>
    /\ UNCHANGED <<Authentication, Logger, field, replies, tx, target,
                   listener, peer, relayUp, authCalls>>

\* mutant: an unknown command is rejected as soon as its byte is read
ReadCommand_EarlyReject ==
    /\ pc = "AwaitingCommand"
    /\ \E b \in CommandBytes \cup {EOF}, w \in WriteOutcomes :
         IF b = EOF
         THEN /\ ServeConnReturn("EOF")
              /\ UNCHANGED <<rx, req, field, replies, tx>>
         ELSE /\ rx' = Append(rx, b)
              /\ req' = [req EXCEPT !.Command = b]
              /\ IF b \notin {ConnectCommand, BindCommand}
                 THEN /\ sendReply(rejectedReply, NilAddr, w)
                      /\ ServeConnReturn("unsupported Command")
                      /\ field' = field
                 ELSE /\ pc' = "AwaitingAddrAndUser"
                      /\ field' = "port"
                      /\ UNCHANGED <<replies, tx, exitAt, err, connClosed,
                                     logged>>
    /\ UNCHANGED <<Authentication, Logger, target, listener,
                   peer, relayUp, authCalls>>

\* readByte(conn) for the command byte
ReadCommand ==
    /\ pc = "AwaitingCommand"
    /\ \E b \in CommandBytes \cup {EOF} :
         IF b = EOF
         THEN /\ ServeConnReturn("EOF")
              /\ UNCHANGED <<rx, req, field>>
         ELSE /\ rx' = Append(rx, b)
              /\ req' = [req EXCEPT !.Command = b]
              /\ pc' = "AwaitingAddrAndUser"
              /\ field' = "port"
              /\ UNCHANGED <<exitAt, err, connClosed, logged>>
    /\ UNCHANGED <<Authentication, Logger, replies, tx, target, listener,
                   peer, relayUp, authCalls>>

\* mutant: the decode error is returned without a reply
onDecodeError_NoReply(e, w) ==
    /\ UNCHANGED <<replies, tx>>
    /\ ServeConnReturn(e)

\* readAddrAndUser failed with e: the rejected reply, then the return
onDecodeError(e, w) ==
    /\ sendReply(rejectedReply, NilAddr, w)
    /\ ServeConnReturn(IF sendReplyFails(rejectedReply, NilAddr, w)
                       THEN "failed to send reply" ELSE e)

\* readAddrAndUser succeeded: the request is complete
onDecoded ==
    /\ pc' = "Authenticating"
    /\ field' = "none"
    /\ UNCHANGED <<replies, tx, exitAt, err, connClosed, logged>>

\* readAddrAndUser: the two port bytes
ReadPort ==
    /\ pc = "AwaitingAddrAndUser" /\ field = "port"
    /\ \E p \in PortInputs \cup {<<>>}, w \in WriteOutcomes :
         IF p = <<>>
         THEN /\ onDecodeError("EOF", w)
              /\ UNCHANGED <<rx, req, field>>
         ELSE /\ rx' = rx \o p
              /\ req' = [req EXCEPT !.DestinationAddr =
                            Addr(<<>>, <<>>, PortOf(p))]
              /\ field' = "ip"
              /\ UNCHANGED <<replies, tx, Running>>
    /\ UNCHANGED <<Authentication, Logger, target, listener, peer, relayUp,
                   authCalls>>

\* readAddrAndUser: the four address bytes
ReadIP ==
    /\ pc = "AwaitingAddrAndUser" /\ field = "ip"
    /\ \E ip \in IPInputs \cup {<<>>}, w \in WriteOutcomes :
         IF ip = <<>>
         THEN /\ onDecodeError("EOF", w)
              /\ UNCHANGED <<rx, req, field>>
         ELSE /\ rx' = rx \o ip
              /\ req' = [req EXCEPT !.DestinationAddr.ip = ip]
              /\ field' = "user"
              /\ UNCHANGED <<replies, tx, Running>>
    /\ UNCHANGED <<Authentication, Logger, target, listener, peer, relayUp,
                   authCalls>>

\* readAddrAndUser: one byte of the NUL-terminated username
ReadUserByte ==
    /\ pc = "AwaitingAddrAndUser" /\ field = "user"
    /\ \E b \in UserBytes \cup {0, EOF}, w \in WriteOutcomes :
         CASE b = EOF ->
                /\ onDecodeError("EOF", w)
                /\ UNCHANGED <<rx, req, field>>
           [] b = 0 ->
                /\ rx' = Append(rx, b)
                /\ IF IsSocks4a(req.DestinationAddr.ip)
                   THEN /\ field' = "domain"
                        /\ req' = req
                        /\ UNCHANGED <<replies, tx, Running>>
                   ELSE /\ req' = [req EXCEPT !.decoded = TRUE]
                        /\ onDecoded
           [] OTHER ->
                /\ rx' = Append(rx, b)
                /\ IF Len(req.Username) >= MaxFieldLen
                   THEN /\ onDecodeError("invalid request", w)
                        /\ UNCHANGED <<req, field>>
                   ELSE /\ req' = [req EXCEPT !.Username = Append(@, b)]
                        /\ UNCHANGED <<field, replies, tx, Running>>
    /\ UNCHANGED <<Authentication, Logger, target, listener, peer, relayUp,
                   authCalls>>

\* readAddrAndUser: one byte of the NUL-terminated SOCKS4a domain
ReadDomainByte ==
    /\ pc = "AwaitingAddrAndUser" /\ field = "domain"
    /\ \E b \in DomainBytes \cup {0, EOF}, w \in WriteOutcomes :
         CASE b = EOF ->
                /\ onDecodeError("EOF", w)
                /\ UNCHANGED <<rx, req, field>>
           [] b = 0 ->
                /\ rx' = Append(rx, b)
                /\ req' = [req EXCEPT !.decoded = TRUE]
                /\ onDecoded
           [] OTHER ->
                /\ rx' = Append(rx, b)
                /\ IF Len(req.DestinationAddr.name) >= MaxFieldLen
                   THEN /\ onDecodeError("invalid request", w)
                        /\ UNCHANGED <<req, field>>
                   ELSE /\ req' = [req EXCEPT !.DestinationAddr.name =
                                       Append(@, b)]
                        /\ UNCHANGED <<field, replies, tx, Running>>
    /\ UNCHANGED <<Authentication, Logger, target, listener, peer, relayUp,
                   authCalls>>

\* --------------------------------------- serveConn: authentication, dispatch
\* mutant: a rejected user gets the invalidUser reply and is dispatched anyway
Authenticate_NoReturn ==
    /\ pc = "Authenticating"
    /\ authCalls' = IF Authentication.nil THEN authCalls ELSE authCalls + 1
    /\ IF ~Authentication.nil
          /\ ~Auth(Authentication, req.Command, req.Username)
       THEN \E w \in WriteOutcomes :
              /\ sendReply(invalidUserReply, NilAddr, w)
              /\ pc' = "Dispatching"
              /\ UNCHANGED <<exitAt, err, connClosed, logged>>
       ELSE /\ pc' = "Dispatching"
            /\ UNCHANGED <<replies, tx, exitAt, err, connClosed, logged>>
    /\ UNCHANGED <<Authentication, Logger, rx, field, req, target, listener,
                   peer, relayUp>>

Authenticate ==
    /\ pc = "Authenticating"
    /\ authCalls' = IF Authentication.nil THEN authCalls ELSE authCalls + 1
    /\ IF ~Authentication.nil
          /\ ~Auth(Authentication, req.Command, req.Username)
       THEN \E w \in WriteOutcomes :
              /\ sendReply(invalidUserReply, NilAddr, w)
              /\ ServeConnReturn(
                    IF sendReplyFails(invalidUserReply, NilAddr, w)
                    THEN "failed to send reply"
                    ELSE "user authentication failed")
       ELSE /\ pc' = "Dispatching"
            /\ UNCHANGED <<replies, tx, exitAt, err, connClosed, logged>>
    /\ UNCHANGED <<Authentication, Logger, rx, field, req, target, listener,
                   peer, relayUp>>

\* mutant: the default branch falls into CONNECT
handle_DefaultConnect ==
    /\ pc = "Dispatching"
    /\ CASE req.Command = ConnectCommand ->
              /\ pc' = "Connecting"
              /\ UNCHANGED <<replies, tx, exitAt, err, connClosed, logged>>
         [] req.Command = BindCommand ->
              /\ pc' = "Listening"
              /\ UNCHANGED <<replies, tx, exitAt, err, connClosed, logged>>
         [] OTHER ->
              /\ pc' = "Connecting"
              /\ UNCHANGED <<replies, tx, exitAt, err, connClosed, logged>>
    /\ UNCHANGED <<Authentication, Logger, rx, field, req, target, listener,
                   peer, relayUp, authCalls>>

\* mutant: the default branch replies rejected and, the return missing,
\* goes on into CONNECT
handle_RejectNoReturn ==
    /\ pc = "Dispatching"
    /\ CASE req.Command = ConnectCommand ->
              /\ pc' = "Connecting"
              /\ UNCHANGED <<replies, tx, exitAt, err, connClosed, logged>>
         [] req.Command = BindCommand ->
              /\ pc' = "Listening"
              /\ UNCHANGED <<replies, tx, exitAt, err, connClosed, logged>>
         [] OTHER ->
              \E w \in WriteOutcomes :
                /\ sendReply(rejectedReply, NilAddr, w)
                /\ pc' = "Connecting"
                /\ UNCHANGED <<exitAt, err, connClosed, logged>>
    /\ UNCHANGED <<Authentication, Logger, rx, field, req, target, listener,
                   peer, relayUp, authCalls>>

handle ==
    /\ pc = "Dispatching"
    /\ CASE req.Command = ConnectCommand ->
              /\ pc' = "Connecting"
              /\ UNCHANGED <<replies, tx, exitAt, err, connClosed, logged>>
         [] req.Command = BindCommand ->
              /\ pc' = "Listening"
              /\ UNCHANGED <<replies, tx, exitAt, err, connClosed, logged>>
         [] OTHER ->
              \E w \in WriteOutcomes :
                /\ sendReply(rejectedReply, NilAddr, w)
                /\ ServeConnReturn(
                      IF sendReplyFails(rejectedReply, NilAddr, w)
                      THEN "use of closed network connection"
                      ELSE "unsupported Command")
    /\ UNCHANGED <<Authentication, Logger, rx, field, req, target, listener,
                   peer, relayUp, authCalls>>


\* ------------------------------------------------------------ handleConnect
\* s.proxyDial(ctx, ...): the local endpoint of the new connection, or NoAddr
\* for an error; the dial of a cancelled context returns the error
DialOutcomes ==
    (IF Context = "cancelled" THEN {} ELSE LocalAddrs) \cup {NoAddr}

\* mutant: a failed dial returns its error without the rejected reply
handleConnect_NoReject ==
    /\ pc = "Connecting"
    /\ \E local \in LocalAddrs \cup {NoAddr}, w \in WriteOutcomes :
         IF local = NoAddr
         THEN /\ target' = [state |-> "failed", local |-> NoAddr,
                            address |-> req.DestinationAddr]
              /\ UNCHANGED <<replies, tx>>
              /\ ServeConnReturn("connect failed")
         ELSE /\ target' = [state |-> "open", local |-> local,
                            address |-> req.DestinationAddr]
              /\ IF ~IsTCPAddr(local)
                 THEN /\ ServeConnReturn("panic")
                      /\ UNCHANGED <<replies, tx>>
                 ELSE /\ sendReply(grantedReply, BindOf(local), w)
                      /\ IF sendReplyFails(grantedReply, BindOf(local), w)
                         THEN ServeConnReturn("failed to send reply")
                         ELSE /\ pc' = "Relaying"
                              /\ UNCHANGED <<exitAt, err, connClosed, logged>>
    /\ UNCHANGED <<Authentication, Logger, rx, field, req, listener, peer,
                   relayUp, authCalls>>

\* proxyDial, then the reply: rejected when the dial failed, granted with the
\* local endpoint of the outbound socket when it succeeded.  The assertion
\* target.LocalAddr().(*net.TCPAddr) has no ok test: an address of another
\* type panics, and the deferred Close of ServeConn still runs.
handleConnect ==
    /\ pc = "Connecting"
    /\ \E local \in DialOutcomes, w \in WriteOutcomes :
         IF local = NoAddr
         THEN /\ target' = [state |-> "failed", local |-> NoAddr,
                            address |-> req.DestinationAddr]
              /\ sendReply(rejectedReply, NilAddr, w)
              /\ ServeConnReturn(
                    IF sendReplyFails(rejectedReply, NilAddr, w)
                    THEN "failed to send reply" ELSE "connect failed")
         ELSE /\ target' = [state |-> "open", local |-> local,
                            address |-> req.DestinationAddr]
              /\ IF ~IsTCPAddr(local)
                 THEN /\ ServeConnReturn("panic")
                      /\ UNCHANGED <<replies, tx>>
                 ELSE /\ sendReply(grantedReply, BindOf(local), w)
                      /\ IF sendReplyFails(grantedReply, BindOf(local), w)
                         THEN ServeConnReturn("failed to send reply")
                         ELSE /\ pc' = "Relaying"
                              /\ UNCHANGED <<exitAt, err, connClosed, logged>>
    /\ UNCHANGED <<Authentication, Logger, rx, field, req, listener, peer,
                   relayUp, authCalls>>

\* --------------------------------------------------------------- handleBind
\* mutant: the listener is not closed when the first reply cannot be written
handleBindListen_NoClose ==
    /\ pc = "Listening"
    /\ \E local \in ListenAddrs \cup {NoAddr}, w \in WriteOutcomes :
         IF local = NoAddr
         THEN /\ listener' = [listener EXCEPT !.state = "failed"]
              /\ sendReply(rejectedReply, NilAddr, w)
              /\ ServeConnReturn(
                    IF sendReplyFails(rejectedReply, NilAddr, w)
                    THEN "failed to send reply" ELSE "connect failed")
         ELSE IF ~IsTCPAddr(local)
         THEN /\ listener' = [listener EXCEPT !.state = "closed",
                                               !.addr = local]
              /\ ServeConnReturn("connect failed")
              /\ UNCHANGED <<replies, tx>>
         ELSE /\ sendReply(grantedReply, BindOf(local), w)
              /\ IF sendReplyFails(grantedReply, BindOf(local), w)
                 THEN /\ listener' = [listener EXCEPT !.state = "open",
                                                       !.addr = local]
                      /\ ServeConnReturn("failed to send reply")
                 ELSE /\ listener' = [listener EXCEPT !.state = "open",
                                                       !.addr = local]
                      /\ pc' = "Accepting"
                      /\ UNCHANGED <<exitAt, err, connClosed, logged>>
    /\ UNCHANGED <<Authentication, Logger, rx, field, req, target, peer,
                   relayUp, authCalls>>

\* lc.Listen and the first reply
handleBindListen ==
    /\ pc = "Listening"
    /\ \E local \in ListenAddrs \cup {NoAddr}, w \in WriteOutcomes :
         IF local = NoAddr
         THEN /\ listener' = [listener EXCEPT !.state = "failed"]
              /\ sendReply(rejectedReply, NilAddr, w)
              /\ ServeConnReturn(
                    IF sendReplyFails(rejectedReply, NilAddr, w)
                    THEN "failed to send reply" ELSE "connect failed")
         ELSE IF ~IsTCPAddr(local)
         THEN /\ listener' = [listener EXCEPT !.state = "closed",
                                               !.addr = local]
              /\ ServeConnReturn("connect failed")
              /\ UNCHANGED <<replies, tx>>
         ELSE /\ sendReply(grantedReply, BindOf(local), w)
              /\ IF sendReplyFails(grantedReply, BindOf(local), w)
                 THEN /\ listener' = [listener EXCEPT !.state = "closed",
                                                       !.addr = local]
                      /\ ServeConnReturn("failed to send reply")
                 ELSE /\ listener' = [listener EXCEPT !.state = "open",
                                                       !.addr = local]
                      /\ pc' = "Accepting"
                      /\ UNCHANGED <<exitAt, err, connClosed, logged>>
    /\ UNCHANGED <<Authentication, Logger, rx, field, req, target, peer,
                   relayUp, authCalls>>

\* mutant: a failed accept returns its error without the rejected reply
handleBindAccept_NoReject ==
    /\ pc = "Accepting"
    /\ \E remote \in PeerAddrs \cup {NoAddr}, w \in WriteOutcomes :
         IF remote = NoAddr
         THEN /\ listener' = [listener EXCEPT !.state = "closed"]
              /\ peer' = [peer EXCEPT !.state = "failed"]
              /\ UNCHANGED <<replies, tx>>
              /\ ServeConnReturn("connect failed")
         ELSE /\ listener' = [listener EXCEPT !.state = "closed",
                                               !.accepted = @ + 1]
              /\ peer' = [state |-> "open", remote |-> remote]
              /\ IF ~IsTCPAddr(remote)
                 THEN /\ ServeConnReturn("connect failed")
                      /\ UNCHANGED <<replies, tx>>
                 ELSE /\ sendReply(grantedReply, BindOf(remote), w)
                      /\ IF sendReplyFails(grantedReply, BindOf(remote), w)
                         THEN ServeConnReturn("failed to send reply")
                         ELSE /\ pc' = "Relaying"
                              /\ UNCHANGED <<exitAt, err, connClosed, logged>>
    /\ UNCHANGED <<Authentication, Logger, rx, field, req, target, relayUp,
                   authCalls>>

\* mutant: the second reply repeats the listening endpoint
handleBindAccept_ReuseLocal ==
    /\ pc = "Accepting"
    /\ \E remote \in PeerAddrs \cup {NoAddr}, w \in WriteOutcomes :
         IF remote = NoAddr
         THEN /\ listener' = [listener EXCEPT !.state = "closed"]
              /\ peer' = [peer EXCEPT !.state = "failed"]
              /\ sendReply(rejectedReply, NilAddr, w)
              /\ ServeConnReturn(
                    IF sendReplyFails(rejectedReply, NilAddr, w)
                    THEN "failed to send reply" ELSE "connect failed")
         ELSE /\ listener' = [listener EXCEPT !.state = "closed",
                                               !.accepted = @ + 1]
              /\ peer' = [state |-> "open", remote |-> remote]
              /\ IF ~IsTCPAddr(remote)
                 THEN /\ ServeConnReturn("connect failed")
                      /\ UNCHANGED <<replies, tx>>
                 ELSE /\ sendReply(grantedReply, BindOf(listener.addr), w)
                      /\ IF sendReplyFails(grantedReply, BindOf(listener.addr), w)
                         THEN ServeConnReturn("failed to send reply")
                         ELSE /\ pc' = "Relaying"
                              /\ UNCHANGED <<exitAt, err, connClosed, logged>>
    /\ UNCHANGED <<Authentication, Logger, rx, field, req, target, relayUp,
                   authCalls>>

\* listener.Accept, listener.Close and the second reply
handleBindAccept ==
    /\ pc = "Accepting"
    /\ \E remote \in PeerAddrs \cup {NoAddr}, w \in WriteOutcomes :
         IF remote = NoAddr
         THEN /\ listener' = [listener EXCEPT !.state = "closed"]
              /\ peer' = [peer EXCEPT !.state = "failed"]
              /\ sendReply(rejectedReply, NilAddr, w)
              /\ ServeConnReturn(
                    IF sendReplyFails(rejectedReply, NilAddr, w)
                    THEN "failed to send reply" ELSE "connect failed")
         ELSE /\ listener' = [listener EXCEPT !.state = "closed",
                                               !.accepted = @ + 1]
              /\ peer' = [state |-> "open", remote |-> remote]
              /\ IF ~IsTCPAddr(remote)
                 THEN /\ ServeConnReturn("connect failed")
                      /\ UNCHANGED <<replies, tx>>
                 ELSE /\ sendReply(grantedReply, BindOf(remote), w)
                      /\ IF sendReplyFails(grantedReply, BindOf(remote), w)
                         THEN ServeConnReturn("failed to send reply")
                         ELSE /\ pc' = "Relaying"
                              /\ UNCHANGED <<exitAt, err, connClosed, logged>>
    /\ UNCHANGED <<Authentication, Logger, rx, field, req, target, relayUp,
                   authCalls>>

\* ------------------------------------------------------------------- tunnel
RelayedDown == Cardinality({i \in DOMAIN tx : tx[i] = Data})

\* one byte copied from the target (or the accepted peer) to the client
tunnelDown ==
    /\ pc = "Relaying"
    /\ RelayedDown < MaxRelay
    /\ tx' = Append(tx, Data)
    /\ UNCHANGED <<Authentication, Logger, rx, field, req, replies, target,
                   listener, peer, relayUp, authCalls, Running>>

\* one byte copied from the client to the target (or the accepted peer)
tunnelUp ==
    /\ pc = "Relaying"
    /\ relayUp < MaxRelay
    /\ relayUp' = relayUp + 1
    /\ UNCHANGED <<Authentication, Logger, rx, field, req, replies, tx,
                   target, listener, peer, authCalls, Running>>

\* both directions have ended: tunnel returns its first non-EOF error
tunnelReturn ==
    /\ pc = "Relaying"
    /\ \E e \in {"nil", "use of closed network connection", "relay failed"} :
         ServeConnReturn(e)
    /\ UNCHANGED <<Authentication, Logger, rx, field, req, replies, tx,
                   target, listener, peer, relayUp, authCalls>>

\* =================================================================== client
Networks == {"tcp", "udp"}
\* target addresses "host:port": an IPv4 literal, a domain name, an empty host
TargetAddrs ==
    {[host |-> "ip4", ip |-> <<127, 0, 0, 1>>, name |-> <<>>, port |-> 80],
     [host |-> "domain", ip |-> <<>>, name |-> <<97>>, port |-> 80],
     [host |-> "empty", ip |-> <<>>, name |-> <<>>, port |-> 10000]}
NoTarget == [host |-> "none", ip |-> <<>>, name |-> <<>>, port |-> 0]
\* what the resolver answers first for a name
ResolvedIPs == {<<10, 0, 0, 1>>}
\* what the proxy may put on the wire as a reply
ReplyHeaders == {<<0, 90>>, <<0, 91>>}
ReplyAddrInputs == {<<39, 16, 0, 0, 0, 0>>, <<195, 80, 127, 0, 0, 1>>}

\* time: instants are naturals, 0 is the zero time.Time; time.Now() and the
\* one-minute Timeout NewDialer sets
Now == 1
Minute == 60
\* Timeout values a caller may put in the Dialer
Timeouts == {0, 2, 5}
\* contexts a caller may pass: no deadline, a deadline, a zero-time deadline
Background == [ok |-> FALSE, deadline |-> 0]
Contexts == {Background, [ok |-> TRUE, deadline |-> 4],
             [ok |-> TRUE, deadline |-> 0]}

\* "host:port" strings: the hostname and the port, "" when absent
HostPort(hostname, port) == [hostname |-> hostname, port |-> port]
NoHostPort == HostPort("", "")
\* the proxy address of a Dialer built by hand
ProxyAddr == HostPort("127.0.0.1", "1080")

NoCall == [op |-> "none", cmd |-> 0, target |-> NoTarget,
           address |-> NoTarget, lookups |-> 0, conn |-> 0]

InitClient ==
    /\ cpc = "idle"
    /\ call = [n |-> 0] @@ NoCall
    /\ transports = <<>>
    /\ results = <<>>
    /\ resolved = 0

InitClientIdle ==
    /\ d = [IsResolve |-> FALSE, Username |-> <<>>, Timeout |-> Minute,
            ProxyAddress |-> NoHostPort]
    /\ l = [address |-> NoTarget, ctx |-> Background]
    /\ InitClient

\* NewDialer: socks4 sets IsResolve, socks4a does not; the userinfo is the
\* username.  Dialer.Listen keeps the address for the Accept calls.
InitDialer ==
    /\ d \in [IsResolve : BOOLEAN, Username : {<<>>, <<117>>},
              Timeout : {Minute}, ProxyAddress : {ProxyAddr}]
    /\ l \in [address : TargetAddrs, ctx : {Background}]
    /\ InitClient

\* a Dialer with its Timeout field set by the caller, used with a caller's
\* context: Dialer.Listen keeps the context for the Accept calls, and the
\* Dial calls of the same caller pass the same one
InitDialerTimeout ==
    /\ d \in [IsResolve : {FALSE}, Username : {<<>>}, Timeout : Timeouts,
              ProxyAddress : {ProxyAddr}]
    /\ l \in [address : {a \in TargetAddrs : a.host = "empty"},
              ctx : Contexts]
    /\ InitClient

\* Dialer.connect: the deadline for the proxy socket, 0 when none is set
connectDeadline(ctx, timeout) ==
    LET deadline == Now + timeout
        sub == IF timeout # 0 /\ (~ctx.ok \/ deadline < ctx.deadline)
               THEN [ok |-> TRUE, deadline |-> deadline]
               ELSE ctx
    IN  IF sub.ok /\ sub.deadline # 0 THEN sub.deadline ELSE 0

\* conn.SetDeadline(deadline) when connect has one
SetDeadline(t, deadline) ==
    IF deadline # 0 THEN [t EXCEPT !.deadlines = Append(@, deadline)] ELSE t

\* the deferred conn.SetDeadline(time.Time{}), registered with the deadline
deferSetDeadline(t) ==
    IF t.deadlines # <<>> THEN [t EXCEPT !.deadlines = Append(@, 0)] ELSE t

\* net.ParseIP(host) # nil
ParseIPOK(a) == a.host = "ip4"

\* writeAddrAndUserWithStr: port, IPv4 (0.0.0.1 before a domain name, zeroes
\* for an empty host), username, NUL and, for a domain, the name and NUL
writeAddrAndUserWithStr(a, username) ==
    PortBytes(a.port)
    \o (CASE a.host = "ip4" -> a.ip
          [] a.host = "domain" -> <<0, 0, 0, 1>>
          [] OTHER -> <<0, 0, 0, 0>>)
    \o username \o <<0>>
    \o (IF a.host = "domain" THEN a.name \o <<0>> ELSE <<>>)

\* readAddr: the six address bytes of a reply as an endpoint
readAddr(b) == TCPAddr(<<b[3], b[4], b[5], b[6]>>, PortOf(b))

\* the call in progress returns (conn, err) to its caller
Return(conn, e, remote) ==
    /\ results' = Append(results, [n |-> call.n, op |-> call.op,
                                   conn |-> conn, err |-> e,
                                   remoteAddr |-> remote,
                                   transport |-> call.conn])
    /\ call' = [n |-> call.n] @@ NoCall
    /\ cpc' = "idle"

\* conn.Close()
Close(t) == [t EXCEPT !.state = "closed", !.events = Append(@, "close")]

\* Dialer.DialContext
DialContext ==
    /\ cpc = "idle"
    /\ call.n < MaxCalls
    /\ \E network \in Networks, a \in TargetAddrs :
         IF network \notin {"tcp", "tcp4", "tcp6"}
         THEN /\ results' = Append(results,
                               [n |-> call.n + 1, op |-> "Dial", conn |-> 0,
                                err |-> "unsupported network",
                                remoteAddr |-> NoAddr, transport |-> 0])
              /\ call' = [call EXCEPT !.n = @ + 1]
              /\ cpc' = cpc
         ELSE /\ call' = [n |-> call.n + 1, op |-> "Dial",
                          cmd |-> ConnectCommand, target |-> a,
                          address |-> a, lookups |-> 0, conn |-> 0]
              /\ cpc' = "resolve"
              /\ results' = results
    /\ UNCHANGED <<d, l, transports, resolved>>

\* listener.Accept: do(l.ctx, BindCommand, l.address)
Accept ==
    /\ cpc = "idle"
    /\ call.n < MaxCalls
    /\ call' = [n |-> call.n + 1, op |-> "Accept", cmd |-> BindCommand,
                target |-> l.address, address |-> l.address,
                lookups |-> 0, conn |-> 0]
    /\ cpc' = "resolve"
    /\ UNCHANGED <<d, l, transports, results, resolved>>

\* mutant: the target goes to the proxy as given, without local resolution
doResolve_Skip ==
    /\ cpc = "resolve"
    /\ cpc' = "proxyDial"
    /\ UNCHANGED <<d, l, call, transports, results, resolved>>

\* Dialer.do: the local resolution of the socks4 scheme; LookupIP of
\* *net.Resolver answers with an error (<<>>) or a non-empty list
doResolve ==
    /\ cpc = "resolve"
    /\ IF d.IsResolve /\ call.address.host # "empty"
          /\ ~ParseIPOK(call.address)
       THEN /\ resolved' = resolved + 1
            /\ \E ip \in ResolvedIPs \cup {<<>>} :
                 IF ip = <<>>
                 THEN /\ Return(0, "lookup failed", NoAddr)
                      /\ UNCHANGED transports
                 ELSE /\ call' = [call EXCEPT !.lookups = @ + 1,
                                     !.address =
                                     [host |-> "ip4", ip |-> ip,
                                      name |-> <<>>, port |-> @.port]]
                      /\ cpc' = "proxyDial"
                      /\ UNCHANGED <<transports, results>>
       ELSE /\ cpc' = "proxyDial"
            /\ UNCHANGED <<call, transports, results, resolved>>
    /\ UNCHANGED <<d, l>>

\* Dialer.do: d.proxyDial opens the transport to the proxy
doProxyDial ==
    /\ cpc = "proxyDial"
    /\ \E ok \in BOOLEAN :
         IF ~ok
         THEN /\ Return(0, "dial failed", NoAddr)
              /\ UNCHANGED transports
         ELSE /\ transports' = Append(transports,
                                  [state |-> "open", call |-> call.n,
                                   sent |-> <<>>, rcvd |-> <<>>,
                                   deadlines |-> <<>>,
                                   events |-> <<"open">>])
              /\ call' = [call EXCEPT !.conn = Len(transports) + 1]
              /\ cpc' = "connect"
              /\ results' = results
    /\ UNCHANGED <<d, l, resolved>>

\* Dialer.connect up to readReply: the two writes of the request
connect ==
    /\ cpc = "connect"
    /\ \E w \in WriteOutcomes :
         LET t == SetDeadline(transports[call.conn],
                              connectDeadline(l.ctx, d.Timeout))
             hdr == <<socks4Version, call.cmd>>
             body == writeAddrAndUserWithStr(call.address, d.Username)
         IN  CASE w = "failHeader" ->
                    /\ transports' = [transports EXCEPT
                          ![call.conn] = Close(deferSetDeadline(t))]
                    /\ Return(0, "write failed", NoAddr)
               [] w = "failAddr" ->
                    /\ transports' = [transports EXCEPT
                          ![call.conn] = Close(deferSetDeadline(
                                             [t EXCEPT !.sent = hdr]))]
                    /\ Return(0, "write failed", NoAddr)
               [] OTHER ->
                    /\ transports' = [transports EXCEPT ![call.conn] =
                          [t EXCEPT !.sent = hdr \o body,
                                    !.events = Append(@, "request")]]
                    /\ cpc' = "readReply"
                    /\ UNCHANGED <<call, results>>
    /\ UNCHANGED <<d, l, resolved>>

\* Dialer.readReply on header bytes h and address bytes a (<<>>: short read)
readReplyErr(h, a) ==
    IF h = <<>> \/ a = <<>> THEN "EOF"
    ELSE IF h[2] # grantedReply THEN "socks connection request failed"
    ELSE "nil"

\* the bytes readReply takes from the stream
readReplyTakes(t, h, a) ==
    [t EXCEPT !.rcvd = @ \o h \o (IF h = <<>> THEN <<>> ELSE a),
              !.events = Append(@, "reply")]

\* mutant: listener.Accept returns the connection of do, without the second
\* reply read
connectReadReply_NoSecond(H, A) ==
    /\ cpc = "readReply"
    /\ \E h \in H \cup {<<>>}, a \in A \cup {<<>>} :
         LET t == deferSetDeadline(
                      readReplyTakes(transports[call.conn], h, a))
         IN  IF readReplyErr(h, a) # "nil"
             THEN /\ transports' = [transports EXCEPT
                                       ![call.conn] = Close(t)]
                  /\ Return(0, readReplyErr(h, a), NoAddr)
             ELSE /\ transports' = [transports EXCEPT ![call.conn] = t]
                  /\ Return(call.conn, "nil", NoAddr)
    /\ UNCHANGED <<d, l, resolved>>

\* Dialer.connect: the reply read that ends the handshake of do, the stream
\* holding a header of H and an address of A
connectReadReply(H, A) ==
    /\ cpc = "readReply"
    /\ \E h \in H \cup {<<>>}, a \in A \cup {<<>>} :
         LET t == deferSetDeadline(
                      readReplyTakes(transports[call.conn], h, a))
         IN  IF readReplyErr(h, a) # "nil"
             THEN /\ transports' = [transports EXCEPT
                                       ![call.conn] = Close(t)]
                  /\ Return(0, readReplyErr(h, a), NoAddr)
             ELSE /\ transports' = [transports EXCEPT ![call.conn] = t]
                  /\ IF call.op = "Accept"
                     THEN /\ cpc' = "acceptReadReply"
                          /\ UNCHANGED <<call, results>>
                     ELSE Return(call.conn, "nil", NoAddr)
    /\ UNCHANGED <<d, l, resolved>>

\* the reply read against a proxy that answers anything
doReadReply == connectReadReply(ReplyHeaders, ReplyAddrInputs)

\* listener.Accept after do: the second reply read and the returned
\* connection, the stream holding a header of H and an address of A
AcceptReadReplyOn(H, A) ==
    /\ cpc = "acceptReadReply"
    /\ \E h \in H \cup {<<>>}, a \in A \cup {<<>>} :
         LET t == readReplyTakes(transports[call.conn], h, a)
         IN  /\ transports' = [transports EXCEPT ![call.conn] = t]
             /\ IF readReplyErr(h, a) # "nil"
                THEN Return(0, readReplyErr(h, a), NoAddr)
                ELSE Return(call.conn, "nil", readAddr(a))
    /\ UNCHANGED <<d, l, resolved>>

\* mutant: the returned connection reports the address of the first reply
AcceptReadReply_FirstAddr ==
    /\ cpc = "acceptReadReply"
    /\ \E h \in ReplyHeaders \cup {<<>>}, a \in ReplyAddrInputs \cup {<<>>} :
         LET t == readReplyTakes(transports[call.conn], h, a)
         IN  /\ transports' = [transports EXCEPT ![call.conn] = t]
             /\ IF readReplyErr(h, a) # "nil"
                THEN Return(0, readReplyErr(h, a), NoAddr)
                ELSE Return(call.conn, "nil", readAddr(SubSeq(t.rcvd, 3, 8)))
    /\ UNCHANGED <<d, l, resolved>>

\* the second reply read against a proxy that answers anything
AcceptReadReply == AcceptReadReplyOn(ReplyHeaders, ReplyAddrInputs)

\* ------------------------------------------------------------ SimpleServer
\* bytes of URL text
Percent == 37
Colon == 58

\* userinfo of a URL as written: absent, or the text before the "@"
NoUser == [present |-> FALSE, raw |-> <<>>]
RawUser(raw) == [present |-> TRUE, raw |-> raw]

\* userinfo texts: "", "u", "uv", "u:p", "%75", "u%00", "uvu"
UserInfos ==
    {NoUser, RawUser(<<>>), RawUser(<<117>>), RawUser(<<117, 118>>),
     RawUser(<<117, Colon, 112>>), RawUser(<<Percent, 55, 53>>),
     RawUser(<<117, Percent, 48, 48>>), RawUser(<<117, 118, 117>>)}

\* host parts: ":0", "" and "127.0.0.1:1080"
HostInputs == {HostPort("", "0"), HostPort("", ""),
               HostPort("127.0.0.1", "1080")}

\* URLs NewSimpleServer accepts
URLs == [Scheme : {"socks4", "socks4a"}, User : UserInfos, Host : HostInputs]

\* value of a hexadecimal digit and the digit of a value, as url does
unhex(c) ==
    IF c \in 48..57 THEN c - 48
    ELSE IF c \in 97..102 THEN c - 97 + 10
    ELSE c - 65 + 10

upperhex(n) == IF n < 10 THEN 48 + n ELSE 65 + n - 10

\* url.unescape: %XX is the byte XX
RECURSIVE unescape(_)
unescape(t) ==
    IF t = <<>> THEN <<>>
    ELSE IF t[1] = Percent
         THEN <<unhex(t[2]) * 16 + unhex(t[3])>>
              \o unescape(SubSeq(t, 4, Len(t)))
         ELSE <<t[1]>> \o unescape(Tail(t))

\* url.shouldEscape for the user name: letters, digits, -_.~ and $&+,;=
\* stay; everything else, "@", "/", "?", ":" included, is escaped
shouldEscape(c) ==
    ~(\/ c \in 48..57 \/ c \in 65..90 \/ c \in 97..122
      \/ c \in {45, 95, 46, 126}
      \/ c \in {36, 38, 43, 44, 59, 61})

\* url.escape
RECURSIVE escape(_)
escape(t) ==
    IF t = <<>> THEN <<>>
    ELSE (IF shouldEscape(t[1])
          THEN <<Percent, upperhex(t[1] \div 16), upperhex(t[1] % 16)>>
          ELSE <<t[1]>>)
         \o escape(Tail(t))

\* the text of t before its first ":"
RECURSIVE beforeColon(_)
beforeColon(t) ==
    IF t = <<>> \/ t[1] = Colon THEN <<>>
    ELSE <<t[1]>> \o beforeColon(Tail(t))

\* u.User.Username() of a parsed URL
Username(user) == unescape(beforeColon(user.raw))

\* the host of a parsed URL with the default port 1080
hostOrDefault(h) == IF h.port = "" THEN HostPort(h.hostname, "1080") ELSE h

\* NewSimpleServer(addr)
NewSimpleServer(u) ==
    [url |-> u,
     Username |-> IF u.User.present THEN Username(u.User) ELSE <<>>,
     Address |-> hostOrDefault(u.Host),
     Network |-> "tcp",
     Listener |-> "nil"]

\* the Authentication NewSimpleServer sets
SimpleAuthentication(u) ==
    IF u.User.present THEN UserAuth(Username(u.User)) ELSE NoAuth

\* listener.Addr().String() of a listener for address a: the wildcard for
\* an empty hostname, a port of the system's choice for port 0
ListenerAddr(a) ==
    HostPort(IF a.hostname = "" THEN "::" ELSE a.hostname,
             IF a.port = "0" THEN "40000" ELSE a.port)

\* mutant: the URL leaves the user name out
ProxyURL_NoUser(srv) == [Scheme |-> "socks4", User |-> NoUser,
                         Host |-> srv.Address]

\* SimpleServer.ProxyURL
ProxyURL(srv) ==
    [Scheme |-> "socks4",
     User |-> IF srv.Username # <<>> THEN RawUser(escape(srv.Username))
              ELSE NoUser,
     Host |-> srv.Address]

\* NewDialer(addr) for a URL of a known scheme
NewDialer(u) ==
    [IsResolve |-> u.Scheme = "socks4",
     Username |-> IF u.User.present THEN Username(u.User) ELSE <<>>,
     Timeout |-> Minute,
     ProxyAddress |-> hostOrDefault(u.Host)]

NoURL == [Scheme |-> "", User |-> NoUser, Host |-> NoHostPort]

\* third-party connections: not made yet, waiting in the accept queue of
\* the listener, refused, accepted, reset with the listener's close
MaxAttempts == 2
Attempts == 1..MaxAttempts

InitAttempts ==
    /\ endpoint = NoAddr
    /\ attempts = [a \in Attempts |-> "idle"]

\* connections Serve accepts, each with a handler of its own
MaxConns == 2

\* the variables of the running handler, as kept while it does not run
Handler ==
    [pc |-> pc, rx |-> rx, field |-> field, req |-> req,
     replies |-> replies, tx |-> tx, target |-> target,
     listener |-> listener, peer |-> peer, relayUp |-> relayUp,
     authCalls |-> authCalls, err |-> err, exitAt |-> exitAt,
     connClosed |-> connClosed, logged |-> logged]

\* go s.ServeConn(conn): a handler at the start of serveConn
NewHandler ==
    [pc |-> "AwaitingVersion", rx |-> <<>>, field |-> "none",
     req |-> [Version |-> 0, Command |-> 0, decoded |-> FALSE,
              DestinationAddr |-> NilAddr, Username |-> <<>>],
     replies |-> <<>>, tx |-> <<>>,
     target |-> [state |-> "none", local |-> NoAddr, address |-> NilAddr],
     listener |-> [state |-> "none", addr |-> NoAddr, accepted |-> 0],
     peer |-> [state |-> "none", remote |-> NoAddr],
     relayUp |-> 0, authCalls |-> 0, err |-> "nil", exitAt |-> "none",
     connClosed |-> FALSE, logged |-> FALSE]

\* the place in parked of the handler that runs: its variables are pc .. logged
Live == [pc |-> "running"]

\* Serve has been called on an open listener and waits in l.Accept()
InitServe ==
    /\ serve = [state |-> "accepting", err |-> "nil", arrived |-> 0,
                started |-> 0, running |-> 0]
    /\ parked = <<>>

\* no SimpleServer is in use
InitNoSimple ==
    /\ simple = NewSimpleServer(NoURL)
    /\ proxyURL = NoURL
    /\ InitAttempts
    /\ InitServe

\* a SimpleServer built from a URL; no Dialer yet
InitSimple ==
    /\ \E u \in URLs :
         /\ simple = NewSimpleServer(u)
         /\ Authentication = SimpleAuthentication(u)
    /\ proxyURL = NoURL
    /\ InitAttempts
    /\ InitServe
    /\ Logger = FALSE
    /\ Context = "active"
    /\ InitConn
    /\ InitClientIdle

\* SimpleServer.Start: Listen and, on success, the bound address
Start ==
    /\ simple.Listener = "nil"
    /\ \E ok \in BOOLEAN :
         simple' = IF ok
                   THEN [simple EXCEPT !.Listener = "open",
                                       !.Address = ListenerAddr(@)]
                   ELSE [simple EXCEPT !.Listener = "failed"]
    /\ UNCHANGED <<svars, cvars, Context, proxyURL, bvars, lvars>>

\* NewDialer(s.ProxyURL()) once Start has returned
NewDialerProxyURL ==
    /\ simple.Listener # "nil"
    /\ proxyURL = NoURL
    /\ proxyURL' = ProxyURL(simple)
    /\ d' = NewDialer(ProxyURL(simple))
    /\ UNCHANGED <<svars, Context, simple, l, cpc, call, transports, results,
                   resolved, bvars, lvars>>

IsPrefix(a, b) == Len(a) <= Len(b) /\ SubSeq(b, 1, Len(a)) = a

\* a framing read of the handler on the stream the Dialer opened: it takes
\* the next bytes the client wrote, or the end of a stream the client closed
OnClientStream(Read) ==
    /\ transports # <<>>
    /\ Read
    /\ LET t == transports[Len(transports)]
       IN  IF rx' = rx
           THEN t.state = "closed" /\ rx = t.sent
           ELSE IsPrefix(rx', t.sent)

\* a reply read of the client on the stream of the handler: it takes the
\* next bytes the handler wrote, where the reply inputs hold them; it falls
\* short only at the end of a stream the handler closed
OnServerStream(Read) ==
    /\ Read
    /\ LET before == transports[call.conn].rcvd
           after == transports'[call.conn].rcvd
       IN  /\ IsPrefix(after, tx)
           /\ Len(after) < Len(before) + 8 => connClosed /\ after = tx

\* Server.Serve: the connection the Dialer opened is accepted and gets a
\* handler of its own
Serve ==
    /\ pc' = "AwaitingVersion"
    /\ rx' = <<>>
    /\ field' = "none"
    /\ req' = [Version |-> 0, Command |-> 0, decoded |-> FALSE,
               DestinationAddr |-> NilAddr, Username |-> <<>>]
    /\ replies' = <<>>
    /\ tx' = <<>>
    /\ target' = [state |-> "none", local |-> NoAddr, address |-> NilAddr]
    /\ listener' = [state |-> "none", addr |-> NoAddr, accepted |-> 0]
    /\ peer' = [state |-> "none", remote |-> NoAddr]
    /\ relayUp' = 0
    /\ authCalls' = 0
    /\ err' = "nil"
    /\ exitAt' = "none"
    /\ connClosed' = FALSE
    /\ logged' = FALSE
    /\ UNCHANGED <<Authentication, Logger>>

\* d.proxyDial reaches the proxy, whose Serve loop starts a handler
ProxyDialServe ==
    /\ doProxyDial
    /\ IF transports' # transports THEN Serve ELSE UNCHANGED svars

\* handleBind's Listen; the first endpoint bound is the one third parties
\* are told to connect to
BindListen ==
    /\ handleBindListen
    /\ endpoint' = IF endpoint = NoAddr /\ listener'.state = "open"
                   THEN listener'.addr ELSE endpoint
    /\ UNCHANGED attempts

\* a third party connects to the bound endpoint: the connection waits in
\* the accept queue of the listener that is open there, or is refused
ThirdPartyConnect ==
    /\ endpoint # NoAddr
    /\ \E a \in Attempts :
         /\ attempts[a] = "idle"
         /\ attempts' = [attempts EXCEPT ![a] =
                            IF listener.state = "open"
                               /\ listener.addr = endpoint
                            THEN "queued" ELSE "refused"]
    /\ UNCHANGED <<svars, cvars, Context, uvars, endpoint, lvars>>

\* handleBind's Accept and Close: Accept takes one connection of the queue;
\* Close resets the connections still waiting in it
BindAccept ==
    /\ handleBindAccept
    /\ LET queued == {a \in Attempts : attempts[a] = "queued"}
           reset(taken) == [a \in Attempts |->
                              IF a \in queued \ taken THEN "reset"
                              ELSE IF a \in taken THEN "accepted"
                              ELSE attempts[a]]
       IN  IF peer'.state = "open"
           THEN \E a \in queued : attempts' = reset({a})
           ELSE attempts' = reset({})
    /\ UNCHANGED endpoint

\* d.proxyDial on d.ProxyAddress connects where the SimpleServer listens
ProxyDialReaches ==
    /\ doProxyDial
    /\ transports' # transports =>
          simple.Listener = "open" /\ d.ProxyAddress = simple.Address

\* ------------------------------------------------------------ specification
Init == InitServer /\ InitClientIdle /\ InitNoSimple

Next ==
    \/ ReadVersion /\ UNCHANGED srest
    \/ ReadCommand /\ UNCHANGED srest
    \/ ReadPort /\ UNCHANGED srest
    \/ ReadIP /\ UNCHANGED srest
    \/ ReadUserByte /\ UNCHANGED srest
    \/ ReadDomainByte /\ UNCHANGED srest
    \/ Authenticate /\ UNCHANGED srest
    \/ handle /\ UNCHANGED srest
    \/ handleConnect /\ UNCHANGED srest
    \/ handleBindListen /\ UNCHANGED srest
    \/ handleBindAccept /\ UNCHANGED srest
    \/ tunnelDown /\ UNCHANGED srest
    \/ tunnelUp /\ UNCHANGED srest
    \/ tunnelReturn /\ UNCHANGED srest

Spec == Init /\ [][Next]_vars

\* the cancellation of Server.Context
Cancel ==
    /\ Context = "active"
    /\ Context' = "cancelled"
    /\ UNCHANGED <<svars, cvars, uvars, bvars, lvars>>

CancelNext == Next \/ Cancel

\* the steps the handler takes by itself come about: the dial returns a
\* connection or an error, and Listen does not block.  Accept returns when a
\* peer connects or the listener fails, which nothing in the handler brings
\* about.
CancelFairness ==
    /\ WF_vars(Authenticate /\ UNCHANGED srest)
    /\ WF_vars(handle /\ UNCHANGED srest)
    /\ WF_vars(handleConnect /\ UNCHANGED srest)
    /\ WF_vars(handleBindListen /\ UNCHANGED srest)

CancelSpec == Init /\ [][CancelNext]_vars /\ CancelFairness

\* the client alone, against an arbitrary proxy
ClientInit ==
    /\ Authentication = NoAuth
    /\ Logger = FALSE
    /\ Context = "active"
    /\ InitConn
    /\ InitDialer
    /\ InitNoSimple

ClientNext ==
    \/ DialContext /\ UNCHANGED crest
    \/ Accept /\ UNCHANGED crest
    \/ doResolve /\ UNCHANGED crest
    \/ doProxyDial /\ UNCHANGED crest
    \/ connect /\ UNCHANGED crest
    \/ doReadReply /\ UNCHANGED crest
    \/ AcceptReadReply /\ UNCHANGED crest

ClientSpec == ClientInit /\ [][ClientNext]_vars

\* the client with a Timeout and a context of the caller's choice
DeadlineInit ==
    /\ Authentication = NoAuth
    /\ Logger = FALSE
    /\ Context = "active"
    /\ InitConn
    /\ InitDialerTimeout
    /\ InitNoSimple

DeadlineSpec == DeadlineInit /\ [][ClientNext]_vars

\* a SimpleServer, a Dialer built from its ProxyURL, one Dial through it and
\* the handler of the connection that Dial opens
SimpleNext ==
    \/ Start
    \/ NewDialerProxyURL
    \/ proxyURL # NoURL /\ call.n = 0 /\ DialContext /\ UNCHANGED crest
    \/ doResolve /\ UNCHANGED crest
    \/ ProxyDialReaches /\ UNCHANGED crest
    \/ connect /\ UNCHANGED crest
    \/ OnClientStream(ReadVersion) /\ UNCHANGED srest
    \/ OnClientStream(ReadCommand) /\ UNCHANGED srest
    \/ OnClientStream(ReadPort) /\ UNCHANGED srest
    \/ OnClientStream(ReadIP) /\ UNCHANGED srest
    \/ OnClientStream(ReadUserByte) /\ UNCHANGED srest
    \/ Authenticate /\ UNCHANGED srest
    \/ handle /\ UNCHANGED srest
    \/ handleConnect /\ UNCHANGED srest

SimpleSpec == InitSimple /\ [][SimpleNext]_vars

\* a client that serves a BIND listener by calling Accept again after each
\* Accept returns, the handlers of the proxy for its connections, and third
\* parties connecting to the bound endpoint
BindInit ==
    /\ Authentication = NoAuth
    /\ Logger = FALSE
    /\ Context = "active"
    /\ InitConn
    /\ d = [IsResolve |-> TRUE, Username |-> <<>>, Timeout |-> Minute,
            ProxyAddress |-> ProxyAddr]
    /\ l \in [address : {a \in TargetAddrs : a.host = "empty"},
              ctx : {Background}]
    /\ InitClient
    /\ InitNoSimple

BindNext ==
    \/ Accept /\ UNCHANGED crest
    \/ doResolve /\ UNCHANGED crest
    \/ ProxyDialServe /\ UNCHANGED <<Context, uvars, bvars, lvars>>
    \/ connect /\ UNCHANGED crest
    \/ OnClientStream(ReadVersion) /\ UNCHANGED srest
    \/ OnClientStream(ReadCommand) /\ UNCHANGED srest
    \/ OnClientStream(ReadPort) /\ UNCHANGED srest
    \/ OnClientStream(ReadIP) /\ UNCHANGED srest
    \/ OnClientStream(ReadUserByte) /\ UNCHANGED srest
    \/ Authenticate /\ UNCHANGED srest
    \/ handle /\ UNCHANGED srest
    \/ BindListen /\ UNCHANGED <<cvars, Context, uvars, lvars>>
    \/ OnServerStream(doReadReply) /\ UNCHANGED crest
    \/ ThirdPartyConnect
    \/ BindAccept /\ UNCHANGED <<cvars, Context, uvars, lvars>>
    \/ OnServerStream(AcceptReadReply) /\ UNCHANGED crest

BindSpec == BindInit /\ [][BindNext]_vars

\* ---------------------------------------------- the Dialer against the Server
\* the bytes the handler wrote that the call in progress has not read
Unread ==
    IF call.conn = 0 THEN <<>>
    ELSE SubSeq(tx, Len(transports[call.conn].rcvd) + 1, Len(tx))

\* io.ReadFull(conn, header[:]) and readAddr(conn) on the stream of the
\* handler: the next two bytes, the six after them, once they are there
StreamHeaders == IF Len(Unread) >= 2 THEN {SubSeq(Unread, 1, 2)} ELSE {}
StreamAddrs == IF Len(Unread) >= 8 THEN {SubSeq(Unread, 3, 8)} ELSE {}

\* a step of the handler on a reliable stream: conn.Write does not fail, so
\* a reply is cut short only by an address writeAddr cannot encode
Reliable(Step) ==
    /\ Step
    /\ Len(replies') > Len(replies) =>
          LET r == replies'[Len(replies')]
          IN  tx' = tx \o sendReplyBytes(r.code, r.addr, "ok")

\* Dialer.connect on a reliable stream: both writes of the request succeed
ReliableConnect == connect /\ cpc' = "readReply"

\* a Dialer of either scheme whose Dial and Accept calls go to a Server,
\* with or without UserAuth, and the handlers of the connections they open
HandshakeInit ==
    /\ Authentication \in {NoAuth, UserAuth(<<117>>)}
    /\ Logger = FALSE
    /\ Context = "active"
    /\ InitConn
    /\ InitDialer
    /\ InitNoSimple

\* calls the client makes one after the other, each on a connection and a
\* handler of its own
MaxHandshakes == 1

HandshakeNext ==
    \/ call.n < MaxHandshakes /\ DialContext /\ UNCHANGED crest
    \/ call.n < MaxHandshakes /\ Accept /\ UNCHANGED crest
    \/ doResolve /\ UNCHANGED crest
    \/ ProxyDialServe /\ UNCHANGED <<Context, uvars, bvars, lvars>>
    \/ ReliableConnect /\ UNCHANGED crest
    \/ Reliable(OnClientStream(ReadVersion)) /\ UNCHANGED srest
    \/ Reliable(OnClientStream(ReadCommand)) /\ UNCHANGED srest
    \/ Reliable(OnClientStream(ReadPort)) /\ UNCHANGED srest
    \/ Reliable(OnClientStream(ReadIP)) /\ UNCHANGED srest
    \/ Reliable(OnClientStream(ReadUserByte)) /\ UNCHANGED srest
    \/ Reliable(OnClientStream(ReadDomainByte)) /\ UNCHANGED srest
    \/ Reliable(Authenticate) /\ UNCHANGED srest
    \/ Reliable(handle) /\ UNCHANGED srest
    \/ Reliable(handleConnect) /\ UNCHANGED srest
    \/ Reliable(handleBindListen) /\ UNCHANGED srest
    \/ Reliable(handleBindAccept) /\ UNCHANGED srest
    \/ tunnelDown /\ UNCHANGED srest
    \/ OnServerStream(connectReadReply(StreamHeaders, StreamAddrs))
          /\ UNCHANGED crest
    \/ OnServerStream(AcceptReadReplyOn(StreamHeaders, StreamAddrs))
          /\ UNCHANGED crest

\* each task runs: the handler's reads of bytes that have arrived, its
\* authentication, dispatch, dial and listen, and the client's reads of
\* bytes that have arrived.  listener.Accept of handleBind returns when a
\* peer connects or the listener fails, which no task here brings about.
HandshakeFairness ==
    /\ WF_vars(Reliable(OnClientStream(ReadVersion)) /\ UNCHANGED srest)
    /\ WF_vars(Reliable(OnClientStream(ReadCommand)) /\ UNCHANGED srest)
    /\ WF_vars(Reliable(OnClientStream(ReadPort)) /\ UNCHANGED srest)
    /\ WF_vars(Reliable(OnClientStream(ReadIP)) /\ UNCHANGED srest)
    /\ WF_vars(Reliable(OnClientStream(ReadUserByte)) /\ UNCHANGED srest)
    /\ WF_vars(Reliable(OnClientStream(ReadDomainByte)) /\ UNCHANGED srest)
    /\ WF_vars(Reliable(Authenticate) /\ UNCHANGED srest)
    /\ WF_vars(Reliable(handle) /\ UNCHANGED srest)
    /\ WF_vars(Reliable(handleConnect) /\ UNCHANGED srest)
    /\ WF_vars(Reliable(handleBindListen) /\ UNCHANGED srest)
    /\ WF_vars(OnServerStream(connectReadReply(StreamHeaders, StreamAddrs))
                 /\ UNCHANGED crest)
    /\ WF_vars(OnServerStream(AcceptReadReplyOn(StreamHeaders, StreamAddrs))
                 /\ UNCHANGED crest)

HandshakeSpec == HandshakeInit /\ [][HandshakeNext]_vars /\ HandshakeFairness

\* -------------------------------------------------------------- Server.Serve
\* a client connects to the listener Serve accepts from
ClientConnects ==
    /\ serve.state = "accepting"
    /\ serve.arrived < MaxConns
    /\ serve' = [serve EXCEPT !.arrived = @ + 1]
    /\ UNCHANGED <<svars, cvars, Context, uvars, bvars, parked>>

\* the variables of the handler of connection c
HandlerOf(c) == IF c = serve.running THEN Handler ELSE parked[c]

\* mutant: s.ServeConn(conn) is called without go, so the loop is back at
\* l.Accept() only when the handler has returned
ServeAccept_NoGo ==
    /\ serve.state = "accepting"
    /\ serve.started > 0 => HandlerOf(serve.started).pc = "Closed"
    /\ \E ok \in BOOLEAN :
         IF ok
         THEN /\ serve.arrived > serve.started
              /\ serve' = [serve EXCEPT !.started = @ + 1]
              /\ parked' = Append(parked, NewHandler)
         ELSE /\ serve' = [serve EXCEPT !.state = "returned",
                                        !.err = "accept failed"]
              /\ UNCHANGED parked
    /\ UNCHANGED <<svars, cvars, Context, uvars, bvars>>

\* one turn of the loop of Serve: l.Accept() returns a connection that has
\* arrived, and go s.ServeConn(conn) starts its handler, or it returns an
\* error and Serve returns it
ServeAccept ==
    /\ serve.state = "accepting"
    /\ \E ok \in BOOLEAN :
         IF ok
         THEN /\ serve.arrived > serve.started
              /\ serve' = [serve EXCEPT !.started = @ + 1]
              /\ parked' = Append(parked, NewHandler)
         ELSE /\ serve' = [serve EXCEPT !.state = "returned",
                                        !.err = "accept failed"]
              /\ UNCHANGED parked
    /\ UNCHANGED <<svars, cvars, Context, uvars, bvars>>

\* the scheduler takes the running handler off and puts handler c on: the
\* variables of a handler are its own, kept while another one runs
Switch ==
    \E c \in 1..Len(parked) :
      /\ c # serve.running
      /\ serve' = [serve EXCEPT !.running = c]
      /\ parked' = [i \in 1..Len(parked) |->
                      IF i = c THEN Live
                      ELSE IF i = serve.running THEN Handler
                      ELSE parked[i]]
      /\ pc' = parked[c].pc
      /\ rx' = parked[c].rx
      /\ field' = parked[c].field
      /\ req' = parked[c].req
      /\ replies' = parked[c].replies
      /\ tx' = parked[c].tx
      /\ target' = parked[c].target
      /\ listener' = parked[c].listener
      /\ peer' = parked[c].peer
      /\ relayUp' = parked[c].relayUp
      /\ authCalls' = parked[c].authCalls
      /\ err' = parked[c].err
      /\ exitAt' = parked[c].exitAt
      /\ connClosed' = parked[c].connClosed
      /\ logged' = parked[c].logged
      /\ UNCHANGED <<Authentication, Logger, cvars, Context, uvars, bvars>>

\* what the clients of the connections send: a CONNECT, a BIND, a request
\* of another protocol version; a client may close at any point of it
ServeRequests ==
    {<<4, 1, 0, 80, 127, 0, 0, 1, 0>>, <<4, 2, 39, 16, 0, 0, 0, 0, 0>>, <<5>>}

\* a step of the handler that runs, its reads on the stream of its client
HandlerStep(Step) ==
    /\ serve.running # 0
    /\ Reliable(Step)
    /\ \E r \in ServeRequests : IsPrefix(rx', r)

ServeNext ==
    \/ ClientConnects
    \/ ServeAccept
    \/ Switch
    \/ HandlerStep(ReadVersion) /\ UNCHANGED srest
    \/ HandlerStep(ReadCommand) /\ UNCHANGED srest
    \/ HandlerStep(ReadPort) /\ UNCHANGED srest
    \/ HandlerStep(ReadIP) /\ UNCHANGED srest
    \/ HandlerStep(ReadUserByte) /\ UNCHANGED srest
    \/ HandlerStep(Authenticate) /\ UNCHANGED srest
    \/ HandlerStep(handle) /\ UNCHANGED srest
    \/ HandlerStep(handleConnect) /\ UNCHANGED srest
    \/ HandlerStep(handleBindListen) /\ UNCHANGED srest
    \/ HandlerStep(handleBindAccept) /\ UNCHANGED srest

\* the loop of Serve is a task of its own: l.Accept() returns once a
\* connection has arrived
ServeFairness == WF_vars(ServeAccept /\ serve'.started > serve.started)

\* a Server with or without UserAuth and without a Logger, serving
ServeInit ==
    /\ Authentication \in {NoAuth, UserAuth(<<117>>)}
    /\ Logger = FALSE
    /\ Context = "active"
    /\ InitConn
    /\ InitClientIdle
    /\ InitNoSimple

ServeSpec == ServeInit /\ [][ServeNext]_vars /\ ServeFairness

\* =================================================================== claims
\* A reply frame counts as written when the handler calls sendReply for it
\* (replies); tx holds the bytes the client stream took.  When no write
\* fails, the 8 bytes of every frame in replies are the content of tx.

\* the handler returned because a write of a reply failed
ReplyWriteFailed ==
    \/ err = "failed to send reply"
    \/ exitAt = "Dispatching" /\ err = "use of closed network connection"

\* the 8 bytes of a reply frame: 00, code, port (big-endian), IPv4
Frame(code, port, ip) ==
    <<0, code, (port \div 256) % 256, port % 256>> \o ip

\* tx is the byte sequence b followed by relayed bytes only
RepliesThenRelay(b) ==
    /\ Len(tx) >= Len(b)
    /\ SubSeq(tx, 1, Len(b)) = b
    /\ \A i \in DOMAIN tx : i > Len(b) => tx[i] = Data

RelayEntered == pc = "Relaying" \/ exitAt = "Relaying"

C3_BadVersionSilent ==
    (pc # "AwaitingVersion" /\ (rx = <<>> \/ rx[1] # 4)) =>
        /\ tx = <<>>
        /\ replies = <<>>
        /\ Len(rx) <= 1
        /\ target.state = "none"
        /\ listener.state = "none"
        /\ peer.state = "none"
        /\ pc = "Closed"
        /\ connClosed

C3_Witness == pc = "Closed" /\ rx = <<5>> /\ connClosed

C3_WitnessEOF == pc = "Closed" /\ rx = <<>> /\ connClosed

\* the version and command bytes were read and then readAddrAndUser failed
DecodeFailed ==
    /\ pc \notin {"AwaitingVersion", "AwaitingCommand", "AwaitingAddrAndUser"}
    /\ Len(rx) >= 2
    /\ rx[1] = 4
    /\ ~req.decoded

\* C4: when the address/username block does not decode, the handler writes
\* exactly one reply frame, rejected with zeroed port and address, and
\* closes the connection without authenticating or dispatching.
C4_DecodeErrorRejected ==
    DecodeFailed =>
        /\ replies = <<[code |-> rejectedReply, addr |-> NilAddr]>>
        /\ ~ReplyWriteFailed => tx = <<0, 91, 0, 0, 0, 0, 0, 0>>
        /\ pc = "Closed"
        /\ connClosed
        /\ authCalls = 0
        /\ target.state = "none"
        /\ listener.state = "none"

C4_Witness ==
    /\ DecodeFailed
    /\ err = "invalid request"
    /\ tx = <<0, 91, 0, 0, 0, 0, 0, 0>>

\* the configured predicate rejects the decoded request
AuthRejects ==
    /\ req.decoded
    /\ ~Authentication.nil
    /\ Authentication.username # req.Username

\* C5: when the configured predicate rejects the request, the handler writes
\* exactly one reply frame, invalidUser, and closes the connection; no
\* granted reply is ever written on that connection.
C5_AuthRejectInvalidUser ==
    (AuthRejects /\ pc # "Authenticating") =>
        /\ replies = <<[code |-> invalidUserReply, addr |-> NilAddr]>>
        /\ ~ReplyWriteFailed => tx = <<0, 93, 0, 0, 0, 0, 0, 0>>
        /\ pc = "Closed"
        /\ connClosed
        /\ target.state = "none"
        /\ listener.state = "none"

C5_Witness ==
    /\ AuthRejects
    /\ req.Username = <<118>>
    /\ pc = "Closed"
    /\ tx = <<0, 93, 0, 0, 0, 0, 0, 0>>

UnknownCommand ==
    /\ req.decoded
    /\ req.Command \notin {ConnectCommand, BindCommand}
    /\ pc \notin {"Authenticating", "Dispatching"}

RejectedAndClosed ==
    /\ replies = <<[code |-> rejectedReply, addr |-> NilAddr]>>
    /\ ~ReplyWriteFailed => tx = <<0, 91, 0, 0, 0, 0, 0, 0>>
    /\ pc = "Closed"
    /\ connClosed
    /\ target.state = "none"
    /\ listener.state = "none"

\* C6 as stated: a well-formed request with a command other than CONNECT and
\* BIND gets one rejected frame 00 5B 00 00 00 00 00 00 and the connection
\* ends, under any configuration and any username.
C6_UnknownCommandRejected_AnyConfig == UnknownCommand => RejectedAndClosed

\* C6 amended: the same, for a request that passes the authentication gate
\* (no predicate configured, or the predicate accepts the username).
C6_UnknownCommandRejected ==
    (UnknownCommand /\ ~AuthRejects) => RejectedAndClosed

C6_Witness ==
    /\ UnknownCommand
    /\ ~Authentication.nil
    /\ req.Username = <<117>>
    /\ req.Command = 3
    /\ tx = <<0, 91, 0, 0, 0, 0, 0, 0>>
    /\ pc = "Closed"

\* C7: when the dial of a CONNECT fails, the handler writes exactly one reply
\* frame, rejected with zeroed address, never relays, returns an error (which
\* a configured logger receives) and the client stream is closed.
C7_DialFailureRejected ==
    target.state = "failed" =>
        /\ req.Command = ConnectCommand
        /\ replies = <<[code |-> rejectedReply, addr |-> NilAddr]>>
        /\ ~ReplyWriteFailed =>
              /\ tx = <<0, 91, 0, 0, 0, 0, 0, 0>>
              /\ err = "connect failed"
              /\ logged = Logger
        /\ err # "nil"
        /\ ~RelayEntered
        /\ RelayedDown = 0 /\ relayUp = 0
        /\ pc = "Closed"
        /\ connClosed

C7_Witness ==
    /\ target.state = "failed"
    /\ err = "connect failed"
    /\ logged
    /\ connClosed

\* C8: on every path by which the handler ends, the client stream is closed
\* when ServeConn has returned.
C8_AlwaysClosed == pc = "Closed" => connClosed /\ exitAt # "none"

C8_Witness ==
    /\ pc = "Closed"
    /\ exitAt = "Accepting"
    /\ err = "failed to send reply"
    /\ connClosed


\* ------------------------------------------------------------ client claims
\* the reply codes of the frames read so far on transport t
CodesRead(t) ==
    {t.rcvd[k] : k \in {j \in DOMAIN t.rcvd : j % 8 = 2}}

\* C9: whenever a client call fails after its transport was opened (write
\* error, failed or short reply read, reply code other than granted; in the
\* handshake of Dial or in either reply read of Accept), the transport is
\* closed when the error is returned and no connection is handed out; a
\* connection is returned only if every reply read had code granted.
C9_FailureClosesTransport ==
    \A i \in DOMAIN results :
        LET r == results[i] IN
        /\ (r.err # "nil" /\ r.transport # 0) =>
               /\ transports[r.transport].state = "closed"
               /\ r.conn = 0
        /\ r.conn # 0 =>
               /\ r.err = "nil"
               /\ r.conn = r.transport
               /\ CodesRead(transports[r.conn]) = {grantedReply}

\* the case C9 fails in: Accept got granted, then a failed second reply read
C9_LeakReached ==
    \E i \in DOMAIN results :
        /\ results[i].op = "Accept"
        /\ results[i].err = "socks connection request failed"
        /\ results[i].conn = 0
        /\ transports[results[i].transport].state = "open"
        /\ Len(transports[results[i].transport].rcvd) = 16

\* the events of t before its close
OpenEvents(t) ==
    IF t.events # <<>> /\ t.events[Len(t.events)] = "close"
    THEN SubSeq(t.events, 1, Len(t.events) - 1) ELSE t.events

\* C10: every Accept is one handshake of its own: a fresh transport, one
\* BIND request, a first reply read, then a second one; the returned
\* connection has the address of the second reply as its remote address, and
\* no transport serves two calls.
C10_AcceptHandshake ==
    /\ \A i \in DOMAIN transports :
          /\ IsPrefix(OpenEvents(transports[i]),
                      <<"open", "request", "reply", "reply">>)
          /\ \A j \in DOMAIN transports :
                i # j => transports[i].call # transports[j].call
    /\ \A i \in DOMAIN results :
          LET r == results[i] IN
          (r.op = "Accept" /\ r.conn # 0) =>
              LET t == transports[r.conn] IN
              /\ t.call = r.n
              /\ t.events = <<"open", "request", "reply", "reply">>
              /\ t.state = "open"
              /\ SubSeq(t.sent, 1, 2) = <<4, 2>>
              /\ Len(t.sent) >= 8 + Len(d.Username) + 1
              /\ Len(t.rcvd) = 16
              /\ r.remoteAddr =
                    [net |-> "tcp",
                     ip |-> SubSeq(t.rcvd, 13, 16),
                     port |-> t.rcvd[11] * 256 + t.rcvd[12]]

C10_Witness ==
    /\ Len(results) >= 2
    /\ results[1].op = "Accept" /\ results[1].conn = 1
    /\ results[2].op = "Accept" /\ results[2].conn = 2
    /\ transports[1].rcvd[3] # transports[1].rcvd[11]
    /\ results[1].remoteAddr # results[2].remoteAddr


\* ----------------------------------------------------- server claims, cont.
\* C13: a decoded request goes on to dispatch exactly when no predicate is
\* configured or the predicate accepts it; with UserAuth(expected) that is
\* exactly when the username equals expected, whatever the command byte.
C13_AuthGate ==
    (req.decoded /\ pc # "Authenticating") =>
        /\ (exitAt # "Authenticating") <=>
               (Authentication.nil \/ Authentication.username = req.Username)
        /\ authCalls = IF Authentication.nil THEN 0 ELSE 1

C13_Witness ==
    /\ ~Authentication.nil
    /\ req.Username = <<117>>
    /\ req.Command = BindCommand
    /\ pc = "Listening"

C13_WitnessOtherCommand ==
    /\ ~Authentication.nil
    /\ req.Command = 3
    /\ exitAt = "Dispatching"

\* the bytes of a complete request for the decoded fields of req
RequestLen ==
    8 + Len(req.Username) + 1
    + (IF IsSocks4a(req.DestinationAddr.ip)
       THEN Len(req.DestinationAddr.name) + 1 ELSE 0)

\* C17 as stated: no reply byte is sent before every byte of the request
\* (version, command, port, IPv4, username and NUL, domain and NUL) is in.
C17_NoReplyBeforeWholeRequest ==
    (replies # <<>> \/ tx # <<>>) =>
        /\ req.decoded
        /\ Len(rx) = RequestLen

\* C17 amended: no reply byte is sent while the request is being read; a
\* reply follows either the last byte of a request that decodes or the
\* failure of reading the address/username block.
C17_NoReplyWhileReading ==
    /\ pc \in {"AwaitingVersion", "AwaitingCommand", "AwaitingAddrAndUser"} =>
          replies = <<>> /\ tx = <<>>
    /\ (replies # <<>> \/ tx # <<>>) =>
          \/ req.decoded /\ Len(rx) = RequestLen /\ rx[Len(rx)] = 0
          \/ exitAt = "AwaitingAddrAndUser" /\ ~req.decoded
    /\ exitAt \in {"AwaitingVersion", "AwaitingCommand"} =>
          replies = <<>> /\ tx = <<>>

C17_Witness ==
    /\ req.decoded
    /\ IsSocks4a(req.DestinationAddr.ip)
    /\ Len(req.DestinationAddr.name) = 1
    /\ Len(req.Username) = 1
    /\ Len(rx) = 12
    /\ Len(tx) = 8

\* C18: when Accept fails on the bound listener, the handler closes the
\* listener, sends one rejected reply and returns without relay; the replies
\* of the connection are the first granted one and then that rejected one.
C18_AcceptFailureRejected ==
    peer.state = "failed" =>
        /\ listener.state = "closed"
        /\ listener.accepted = 0
        /\ replies = <<[code |-> grantedReply,
                        addr |-> Addr(<<>>, listener.addr.ip,
                                      listener.addr.port)],
                       [code |-> rejectedReply, addr |-> NilAddr]>>
        /\ ~ReplyWriteFailed =>
              tx = Frame(grantedReply, listener.addr.port, listener.addr.ip)
                   \o <<0, 91, 0, 0, 0, 0, 0, 0>>
        /\ pc = "Closed"
        /\ exitAt = "Accepting"
        /\ connClosed
        /\ RelayedDown = 0 /\ relayUp = 0

C18_Witness ==
    /\ peer.state = "failed"
    /\ err = "connect failed"
    /\ Len(tx) = 16
    /\ tx[10] = rejectedReply

\* C19: the listener of a BIND accepts at most one connection and is closed
\* on every way out of the handler; it is open only while the handler waits
\* in Accept, never during the relay and never after the return.
C19_ListenerClosed ==
    /\ listener.accepted <= 1
    /\ listener.state = "open" => pc = "Accepting"
    /\ pc \in {"Relaying", "Closed"} => listener.state # "open"
    /\ listener.accepted = 1 => listener.state = "closed"

C19_Witness ==
    /\ exitAt = "Listening"
    /\ listener.state = "closed"
    /\ err = "failed to send reply"

C19_WitnessRelay ==
    /\ pc = "Relaying"
    /\ listener.state = "closed"
    /\ listener.accepted = 1

\* an endpoint the network handed out that has no IPv4 form
NonIPv4(a) == a.net # "none" /\ Len(a.ip) # 4

GrantedFor(a) ==
    \E i \in DOMAIN replies :
        replies[i] = [code |-> grantedReply, addr |-> Addr(<<>>, a.ip, a.port)]

\* C20: when an endpoint to report (local endpoint of the CONNECT socket,
\* local endpoint of the BIND listener, remote endpoint of the accepted
\* peer) is not IPv4, the handler ends the connection without relay and
\* without a granted reply for that endpoint.
C20_NonIPv4NoGranted ==
    \A a \in {target.local, listener.addr, peer.remote} :
        NonIPv4(a) =>
            /\ ~RelayEntered
            /\ ~GrantedFor(a)
            /\ pc = "Closed"

\* the case C20 fails in: a granted header is on the stream for an IPv6
\* local endpoint of the outbound socket
C20_GrantedHeaderSent ==
    /\ NonIPv4(target.local)
    /\ tx = <<0, 90>>
    /\ pc = "Closed"


\* ------------------------------------------------------ client claims, cont.
\* the request on transport t names its destination by a domain name
SentDomain(t) ==
    /\ Len(t.sent) >= 8
    /\ \/ IsSocks4a(SubSeq(t.sent, 5, 8))
       \/ Len(t.sent) > 8 + Len(d.Username) + 1

\* the call in progress is past the resolution step of do
PastResolve == cpc \in {"proxyDial", "connect", "readReply", "acceptReadReply"}

\* no transport to the proxy was opened for call n
NoTransportOf(n) == \A i \in DOMAIN transports : transports[i].call # n

\* what C12 says around the resolver for the targets named by the condition
\* Needs(a): lookup before the proxy is contacted, failure without a proxy
\* connection, the first address in place of the host and in the request
ResolveRule(Needs(_)) ==
    /\ (d.IsResolve /\ PastResolve /\ Needs(call.target)) =>
          /\ call.lookups = 1
          /\ call.address = [host |-> "ip4", ip |-> <<10, 0, 0, 1>>,
                             name |-> <<>>, port |-> call.target.port]
    /\ cpc \in {"resolve", "proxyDial"} => NoTransportOf(call.n)
    /\ \A i \in DOMAIN results :
          results[i].err = "lookup failed" =>
              /\ results[i].transport = 0
              /\ results[i].conn = 0
              /\ NoTransportOf(results[i].n)
    /\ (d.IsResolve /\ cpc \in {"readReply", "acceptReadReply"}
        /\ Needs(call.target)) =>
          /\ SubSeq(transports[call.conn].sent, 3, 8)
                = PortBytes(call.target.port) \o <<10, 0, 0, 1>>
          /\ ~SentDomain(transports[call.conn])

NotIPv4Literal(a) == a.host # "ip4"
IsDomainName(a) == a.host = "domain"

\* C12 as stated: with the socks4 scheme every target whose host is not an
\* IPv4 literal is resolved before the proxy is contacted; a failed lookup
\* fails the dial with no proxy connection; the request never carries a
\* domain name.
C12_ResolveUnlessIPv4 ==
    /\ ResolveRule(NotIPv4Literal)
    /\ d.IsResolve => \A i \in DOMAIN transports : ~SentDomain(transports[i])

\* C12 amended: the same for every target whose host is a domain name; an
\* empty host and an IPv4 literal go to the request unresolved.
C12_ResolveDomain ==
    /\ ResolveRule(IsDomainName)
    /\ (PastResolve /\ (~d.IsResolve \/ ~IsDomainName(call.target))) =>
          call.lookups = 0 /\ call.address = call.target

C12_Witness ==
    /\ d.IsResolve
    /\ cpc = "readReply"
    /\ call.target.host = "domain"
    /\ call.lookups = 1
    /\ transports[call.conn].sent = <<4, 1, 0, 80, 10, 0, 0, 1, 0>>

C12_WitnessLookupFailed ==
    /\ d.IsResolve
    /\ results # <<>>
    /\ results[Len(results)].err = "lookup failed"
    /\ transports = <<>>

\* the case the statement of C12 misses: an empty host under socks4
C12_EmptyHostUnresolved ==
    /\ d.IsResolve
    /\ cpc = "readReply"
    /\ call.target.host = "empty"
    /\ resolved = 0
    /\ transports[call.conn].sent = <<4, 2, 39, 16, 0, 0, 0, 0, 0>>


\* the socket deadline of transport t now (0: none) and whether the
\* handshake of connect is running on it
SocketDeadline(t) ==
    IF t.deadlines = <<>> THEN 0 ELSE t.deadlines[Len(t.deadlines)]

InHandshake(i) == cpc = "readReply" /\ call.conn = i

Min(a, b) == IF a < b THEN a ELSE b

\* what C16 says for a dialer whose context has a deadline when Ambient
\* holds: during the handshake the socket carries the earlier of
\* Now + Timeout and the ambient deadline and is never unbounded or later
\* than the ambient deadline; SetDeadline is not called when neither exists;
\* after the handshake, on every return path, the deadline is cleared
DeadlineRule(Ambient) ==
    LET HasTimeout == d.Timeout # 0
        Earlier == IF HasTimeout /\ Ambient
                   THEN Min(Now + d.Timeout, l.ctx.deadline)
                   ELSE IF HasTimeout THEN Now + d.Timeout
                   ELSE l.ctx.deadline
    IN  \A i \in DOMAIN transports :
            LET t == transports[i]
            IN  /\ (cpc = "connect" /\ call.conn = i) => t.deadlines = <<>>
                /\ InHandshake(i) =>
                      IF HasTimeout \/ Ambient
                      THEN /\ t.deadlines = <<Earlier>>
                           /\ SocketDeadline(t) # 0
                           /\ Ambient => SocketDeadline(t) <= l.ctx.deadline
                      ELSE t.deadlines = <<>>
                /\ (~InHandshake(i) /\ ~(cpc = "connect" /\ call.conn = i)) =>
                      /\ SocketDeadline(t) = 0
                      /\ t.deadlines = IF HasTimeout \/ Ambient
                                       THEN <<Earlier, 0>> ELSE <<>>

\* C16 as stated: the socket deadline of the handshake is the earlier of
\* now + Timeout (Timeout non-zero) and the ambient deadline (when the
\* context has one), never later than the ambient one, absent when neither
\* exists, and cleared on every return path.
C16_DeadlineEarlierOf == DeadlineRule(l.ctx.ok)

\* the same for every context but one whose deadline is the zero time
DeadlineEarlierOfNonZero ==
    (l.ctx.ok => l.ctx.deadline # 0) => DeadlineRule(l.ctx.ok)

C16_Witness ==
    /\ d.Timeout = 5
    /\ l.ctx = [ok |-> TRUE, deadline |-> 4]
    /\ \E i \in DOMAIN transports : InHandshake(i)
                                    /\ transports[i].deadlines = <<4>>

C16_WitnessTimeoutFirst ==
    /\ d.Timeout = 2
    /\ l.ctx = [ok |-> TRUE, deadline |-> 4]
    /\ \E i \in DOMAIN transports :
          /\ transports[i].state = "closed"
          /\ transports[i].deadlines = <<3, 0>>

\* the case C16 fails in: with a context whose deadline is the zero time
\* the socket has no deadline during the handshake, Timeout or not
C16_ZeroAmbientUnbounded ==
    /\ l.ctx = [ok |-> TRUE, deadline |-> 0]
    /\ d.Timeout = 2
    /\ \E i \in DOMAIN transports : InHandshake(i)
                                    /\ transports[i].deadlines = <<>>


\* the handler is inside a target dial, a BIND listen or a BIND accept
Blocked == pc \in {"Connecting", "Listening", "Accepting"}

\* C15: once Server.Context is cancelled, a handler that is blocked in a
\* target dial, a BIND listen or a BIND accept leaves that operation: it
\* does not stay in one of them for ever.
C15_CancelUnblocks == (Context = "cancelled" /\ Blocked) ~> ~Blocked

\* the part of C15 that holds: a cancelled dial ends the connection
CancelEndsDial ==
    (Context = "cancelled" /\ pc = "Connecting") ~> (pc = "Closed" /\ connClosed)

\* the case C15 fails in: the context is cancelled and the handler waits in
\* Accept on an open listener
C15_BlockedInAccept ==
    /\ Context = "cancelled"
    /\ pc = "Accepting"
    /\ listener.state = "open"
    /\ ~connClosed


\* ----------------------------------------------------- SimpleServer claims
\* the Dialer has written a whole request on the stream to the SimpleServer
RequestSent == transports # <<>> /\ Len(transports[1].sent) > 2

\* what C14 says of a started SimpleServer and the Dialer of its ProxyURL:
\* the URL names the bound address, the Dialer dials it and carries the
\* server's user name, the request passes decoding, authentication and
\* dispatch, and it is granted when the target dial succeeds
ProxyURLRule ==
    (simple.Listener = "open" /\ proxyURL # NoURL) =>
        /\ proxyURL.Host = ListenerAddr(hostOrDefault(simple.url.Host))
        /\ d.ProxyAddress = proxyURL.Host
        /\ d.Username = simple.Username
        /\ RequestSent =>
              /\ exitAt \notin {"AwaitingVersion", "AwaitingCommand",
                                "AwaitingAddrAndUser", "Authenticating",
                                "Dispatching"}
              /\ pc \in {"Connecting", "Relaying", "Closed"} =>
                    /\ req.Username = simple.Username
                    /\ req.Command = ConnectCommand
              /\ (target.state = "open" /\ ~NonIPv4(target.local)
                  /\ ~ReplyWriteFailed) =>
                    /\ pc = "Relaying"
                    /\ replies = <<[code |-> grantedReply,
                                    addr |-> BindOf(target.local)]>>

\* the user name goes through the NUL-terminated field of the request
UsernameFits ==
    /\ Len(simple.Username) <= MaxFieldLen
    /\ \A i \in DOMAIN simple.Username : simple.Username[i] # 0

\* C14 as stated: for a SimpleServer built from any accepted URL, after Start
\* succeeds ProxyURL() names the bound address and a Dialer built from it
\* reaches the server with a user name that passes authentication, so its
\* CONNECT requests are granted.
C14_ProxyURLGranted == ProxyURLRule

\* C14 amended: the same for every accepted URL whose user name has no NUL
\* byte and is no longer than the user name field of a request.
C14_ProxyURLGrantedIfUsernameFits == UsernameFits => ProxyURLRule

C14_Witness ==
    /\ simple.url.User = RawUser(<<Percent, 55, 53>>)
    /\ simple.url.Host = HostPort("", "0")
    /\ simple.Listener = "open"
    /\ proxyURL.User = RawUser(<<117>>)
    /\ proxyURL.Host = HostPort("::", "40000")
    /\ req.Username = <<117>>
    /\ pc = "Relaying"
    /\ tx = <<0, 90, 192, 0, 127, 0, 0, 1>>

\* the cases the statement of C14 misses: a user name with a NUL byte is cut
\* at the NUL by the server, a user name over the field limit is refused
C14_NulUsernameRefused ==
    /\ simple.Listener = "open"
    /\ simple.Username = <<117, 0>>
    /\ proxyURL.User = RawUser(<<117, Percent, 48, 48>>)
    /\ req.Username = <<117>>
    /\ exitAt = "Authenticating"

C14_LongUsernameRefused ==
    /\ simple.Listener = "open"
    /\ Len(simple.Username) > MaxFieldLen
    /\ d.Username = simple.Username
    /\ exitAt = "AwaitingAddrAndUser"
    /\ err = "invalid request"


\* ------------------------------------------------------- BIND service claim
\* no dial, write, read, Listen or Accept has failed so far
NoFailure ==
    /\ err = "nil"
    /\ \A i \in DOMAIN results : results[i].err = "nil"

\* C11: with a client that calls Accept again after each Accept returns,
\* every third-party connection attempt to the bound endpoint, made alone
\* or together with others, is accepted by a BIND session and relayed to
\* one connection Accept returns; none is refused and none is lost.
C11_NoAttemptRefusedOrLost ==
    NoFailure =>
        /\ \A a \in Attempts : attempts[a] \notin {"refused", "reset"}
        /\ Cardinality({a \in Attempts : attempts[a] = "accepted"})
              \in {Len(results), Len(results) + 1}

\* the cases C11 fails in: an attempt made between two BIND sessions finds
\* no listener, and an attempt waiting in the accept queue is reset when the
\* session that accepted another one closes its listener
C11_RefusedBetweenSessions ==
    /\ NoFailure
    /\ attempts[1] = "accepted"
    /\ attempts[2] = "refused"
    /\ Len(results) = 1
    /\ cpc = "resolve"

C11_ResetWithListener ==
    /\ NoFailure
    /\ attempts[1] = "accepted"
    /\ attempts[2] = "reset"
    /\ pc = "Relaying"
    /\ listener.state = "closed"

\* a later session does accept an attempt made while it listens
C11_SecondSessionAccepts ==
    /\ NoFailure
    /\ call.n = 2
    /\ \A a \in Attempts : attempts[a] = "accepted"
    /\ Len(results) = 2
    /\ \A i \in DOMAIN results : results[i].err = "nil"

\* ------------------------------------------------------------------- C22
\* the handler called proxyDial, lc.Listen: target and listener leave "none"
\* at the call, whatever it returns
DialAttempted == target.state # "none"
ListenAttempted == listener.state # "none"

\* the request passed the three gates of serveConn
Admitted ==
    /\ Len(rx) >= 1 /\ rx[1] = 4
    /\ req.Version = socks4Version
    /\ req.decoded
    /\ \/ Authentication.nil
       \/ /\ authCalls = 1
          /\ Auth(Authentication, req.Command, req.Username)

\* C22: the server dials a target or binds a BIND listening socket only for
\* a connection whose version byte was 0x04, whose address/username block
\* decoded and whose (command, username) pair the configured predicate
\* accepted; a connection that ends at the version check, at the decoding
\* or at the authentication dialled nothing and bound nothing.
C22_NoDialNoListenUnlessAdmitted ==
    /\ (DialAttempted \/ ListenAttempted) => Admitted
    /\ pc \in {"Connecting", "Listening"} => Admitted
    /\ (AuthRejects /\ pc # "Authenticating") =>
           ~DialAttempted /\ ~ListenAttempted
    /\ exitAt \in {"AwaitingVersion", "AwaitingCommand",
                   "AwaitingAddrAndUser", "Authenticating"} =>
           ~DialAttempted /\ ~ListenAttempted

\* the predicate is configured, accepted the pair, and the listen was made
C22_Witness ==
    /\ ~Authentication.nil
    /\ authCalls = 1
    /\ ListenAttempted
    /\ listener.state = "open"

\* ------------------------------------------------------------------- C23
\* the codes of the sendReply calls made so far, in order
ReplyCodes == [i \in DOMAIN replies |-> replies[i].code]

\* the bytes on the client stream that are reply bytes, not relayed ones
ReplyBytes == Len(tx) - RelayedDown

\* C23: on every path of the handler at most one reply is written for a
\* CONNECT request and at most two for a BIND request (one otherwise); a
\* reply with code rejected or invalidUser is the last thing the server
\* writes, the handler has returned and nothing is relayed after it; and
\* relay is entered only when every reply was written whole and was granted,
\* one for CONNECT and two for BIND.
C23_ReplyDiscipline ==
    /\ Len(replies) <= (IF req.Command = BindCommand THEN 2 ELSE 1)
    /\ ReplyBytes <= 8 * Len(replies)
    /\ \A i \in DOMAIN replies :
          replies[i].code \in {rejectedReply, invalidUserReply} =>
             /\ i = Len(replies)
             /\ pc = "Closed"
             /\ exitAt # "Relaying"
             /\ RelayedDown = 0
    /\ (RelayEntered \/ RelayedDown > 0) =>
          /\ req.Command \in {ConnectCommand, BindCommand}
          /\ ReplyCodes = (IF req.Command = BindCommand
                           THEN <<grantedReply, grantedReply>>
                           ELSE <<grantedReply>>)
          /\ ReplyBytes = 8 * Len(replies)
          /\ \A i \in 1..ReplyBytes : tx[i] # Data

\* a BIND whose accept failed: granted, then rejected, and the handler ended
C23_Witness ==
    /\ req.Command = BindCommand
    /\ ReplyCodes = <<grantedReply, rejectedReply>>
    /\ pc = "Closed"

\* a BIND in relay after its two granted replies
C23_BindRelays ==
    /\ req.Command = BindCommand
    /\ pc = "Relaying"
    /\ RelayedDown > 0

\* ------------------------------------------------------------------- C24
\* the transport the running handler serves, and what the client has read
\* of it
Served == Len(transports)
Consumed == transports[Served].rcvd

\* the reply bytes the handler put on the stream, relayed bytes left out
Replied == SubSeq(tx, 1, ReplyBytes)

\* the last call has returned, and it was made on the served transport
ReturnedOnServed ==
    /\ results # <<>>
    /\ Served > 0
    /\ results[Len(results)].transport = Served

\* the client waits for a reply and the handler for the request
BothWaiting ==
    /\ cpc \in {"readReply", "acceptReadReply"}
    /\ pc \in {"AwaitingVersion", "AwaitingCommand", "AwaitingAddrAndUser"}
    /\ rx = transports[Served].sent

C24_InSync ==
    /\ ~BothWaiting
    /\ Served > 0 =>
          /\ IsPrefix(Consumed, Replied)
          /\ Len(Consumed) % 8 # 0 => connClosed /\ Consumed = tx
    /\ ReturnedOnServed =>
          LET r == results[Len(results)]
              n == IF r.op = "Accept" THEN 2 ELSE 1
          IN  /\ r.err = "nil" =>
                    /\ r.conn = Served
                    /\ Consumed = Replied
                    /\ Len(Consumed) = 8 * n
                    /\ ReplyCodes = [i \in 1..n |-> grantedReply]
                    /\ RelayEntered
                    /\ transports[Served].state = "open"
              /\ (ReplyCodes = <<grantedReply, rejectedReply>>) =>
                    /\ r.op = "Accept"
                    /\ r.conn = 0
                    /\ r.err = "socks connection request failed"
                    /\ Consumed = tx
                    /\ Consumed = Frame(grantedReply, listener.addr.port,
                                        To4(listener.addr.ip))
                                   \o Frame(rejectedReply, 0, <<0, 0, 0, 0>>)

\* the read of the first reply returns
C24_FirstReplyRead == (cpc = "readReply") ~> (cpc # "readReply")

\* once the handler's accept has returned, the read of the second reply
\* returns
C24_SecondReplyRead ==
    (cpc = "acceptReadReply" /\ pc # "Accepting")
        ~> (cpc # "acceptReadReply")

\* C24: the Dialer and the Server on a reliable stream neither deadlock nor
\* desynchronise.  The client is never waiting for a reply while the
\* handler waits for request bytes, and each reply read comes to an end;
\* the client takes the reply bytes in whole frames of 8, never a relayed
\* byte; when Dial (one reply) or Accept (two) returns a connection every
\* reply byte is read, all replies were granted and the handler has entered
\* relay; and when the handler's accept fails after the first granted
\* reply, Accept reads the granted and the rejected frame and returns an
\* error and no connection.
C24_Handshake ==
    /\ []C24_InSync
    /\ C24_FirstReplyRead
    /\ C24_SecondReplyRead

\* Accept returned an error after reading granted, then rejected
C24_Witness ==
    /\ ReturnedOnServed
    /\ results[Len(results)].op = "Accept"
    /\ results[Len(results)].err # "nil"
    /\ ReplyCodes = <<grantedReply, rejectedReply>>
    /\ Len(Consumed) = 16

\* Accept returned a connection while the handler relays
C24_AcceptReturnsConn ==
    /\ ReturnedOnServed
    /\ results[Len(results)].op = "Accept"
    /\ results[Len(results)].err = "nil"
    /\ RelayedDown > 0

\* Dial returned a connection through a Server with UserAuth
C24_DialReturnsConn ==
    /\ ReturnedOnServed
    /\ results[Len(results)].op = "Dial"
    /\ results[Len(results)].err = "nil"
    /\ ~Authentication.nil
    /\ req.DestinationAddr.name # <<>>

\* the client read an invalidUser reply
C24_InvalidUserRead ==
    /\ ReturnedOnServed
    /\ Consumed = <<0, 93, 0, 0, 0, 0, 0, 0>>
    /\ results[Len(results)].err = "socks connection request failed"

\* a reply cut short by an address with no IPv4 form ends the call
C24_ShortReplyRead ==
    /\ ReturnedOnServed
    /\ Len(Consumed) = 10
    /\ results[Len(results)].err = "EOF"

\* ------------------------------------------------------------------- C21
Conns == 1..Len(parked)

\* one handler for each connection Serve accepted, and Serve has returned
\* exactly when l.Accept() returned an error
C21_OneHandlerEach ==
    /\ Len(parked) = serve.started
    /\ serve.started <= serve.arrived
    /\ serve.running \in 0..serve.started
    /\ \A c \in Conns : parked[c] = Live <=> c = serve.running
    /\ serve.state = "returned" <=> serve.err = "accept failed"
    /\ serve.state = "accepting" <=> serve.err = "nil"

\* a step changes the variables of at most the handler that runs, and then
\* nothing of Serve or of the other handlers; no step changes a field of
\* the Server; Serve returns at a step that changes no handler
C21_StepsAreLocal ==
    /\ \A c \in Conns :
          HandlerOf(c)' # HandlerOf(c) =>
             /\ c = serve.running
             /\ serve' = serve
             /\ \A o \in Conns \ {c} : HandlerOf(o)' = HandlerOf(o)
    /\ Authentication' = Authentication
    /\ Logger' = Logger
    /\ Context' = Context
    /\ serve'.state # serve.state =>
          /\ serve'.err = "accept failed"
          /\ \A c \in Conns : HandlerOf(c)' = HandlerOf(c)

\* a connection that has arrived is accepted, unless Serve returns
C21_KeepsAccepting ==
    \A k \in 1..MaxConns :
      (serve.arrived >= k) ~> (serve.started >= k \/ serve.state = "returned")

C21_ServedAfterFailure ==
    /\ serve.started = 2
    /\ HandlerOf(1).err = "unsupported SOCKS version"
    /\ HandlerOf(2).pc = "Relaying"

\* a handler goes on after Serve has returned
C21_HandlerOutlivesServe ==
    /\ serve.state = "returned"
    /\ serve.running # 0
    /\ pc = "Relaying"

====
